---- MODULE Spec2Model ----
(***************************************************************************)
(* A model of the schemini validator composition engine: validator nodes   *)
(* (primitive, modifier, collection, union), the _parse protocol with its  *)
(* error aggregation, and the top-level safeParse entry point.             *)
(*                                                                         *)
(* Validator instances live in a heap (nodes), addressed by reference, as  *)
(* JavaScript objects do.  A parse is a pure walk over the heap, except    *)
(* for user callbacks (default generators, transform functions, refine     *)
(* predicates), whose invocations are threaded through the walk.           *)
(***************************************************************************)
EXTENDS Integers, Sequences, FiniteSets, TLC

VARIABLES
    nodes,            \* heap of validator instances, a reference is an index
    counter,          \* the variable captured by the generator `() => ++counter`
    currentErrorMap,  \* the process-wide error map (module-level `let`)
    given,            \* the value and call options the caller holds
    last              \* the most recent top-level call and what it returned

vars == <<nodes, counter, currentErrorMap, given, last>>

(***************************************************************************)
(* Bounds of the model.                                                    *)
(***************************************************************************)
MaxLen == 2        \* longest input array
MaxCounter == 3    \* the generator's counter is not driven beyond this
MaxHeap == 8       \* instances on the heap while object validators are derived
MaxNodes == 3      \* instances on the heap while validators are being derived

(***************************************************************************)
(* JavaScript values.  Each type keeps its payload in a field of its own.  *)
(***************************************************************************)
Undefined == [t |-> "undefined"]
Null == [t |-> "null"]
Bool(b) == [t |-> "boolean", bool |-> b]
Num(n) == [t |-> "number", num |-> n]
NaN == [t |-> "number", special |-> "NaN"]
Infinity == [t |-> "number", special |-> "Infinity"]
\* a finite number that is no integer: num + frac, frac one of the fractions
\* 0 < MIN_VALUE < 0.5 < 1-MIN_VALUE < 1 (num is the floor)
Float(n, frac) == [t |-> "number", num |-> n, frac |-> frac]
MIN_VALUE == Float(0, "MIN_VALUE")            \* Number.MIN_VALUE, 5e-324
NegMIN_VALUE == Float(-1, "1-MIN_VALUE")      \* -Number.MIN_VALUE
Half(n) == Float(n, "0.5")                    \* n + 0.5
Str(s) == [t |-> "string", str |-> s]
Obj(e) == [t |-> "object", obj |-> e]
Arr(a) == [t |-> "array", arr |-> a]
Fn(name) == [t |-> "function", fn |-> name]
RegExp(name) == [t |-> "regexp", re |-> name]
\* the same expression with the g flag: /.../g
GlobalRegExp(name) == [t |-> "regexp", re |-> name, flags |-> "g"]

\* Symbol()
Symbol == [t |-> "symbol"]
\* Object.create(null) with the given properties: an object without
\* toString and valueOf
NullProtoObj(e) == [t |-> "object", obj |-> e, proto |-> Null]

\* the `typeof` operator
TypeOf(v) ==
    IF v.t \in {"null", "array"} THEN "object" ELSE v.t

\* Array.isArray
IsArray(v) == v.t = "array"

\* truthiness of a value used as a condition
Truthy(v) ==
    CASE v.t = "undefined" -> FALSE
      [] v.t = "null" -> FALSE
      [] v.t = "boolean" -> v.bool
      [] v.t = "number" -> v # NaN /\ v # Num(0)
      [] v.t = "string" -> v.str # ""
      [] OTHER -> TRUE

\* `const x = value; body`: the value is computed once and named in the body
Const(value, Body(_)) == Body(value)

\* the integer-like keys ('0', '1', ...) of the model, in ascending order
IndexKeys == <<"0", "1", "2">>

IsIndexKey(k) == \E j \in 1..Len(IndexKeys) : IndexKeys[j] = k

\* Object.entries(o).  An object is held as its properties in the order they
\* were created; its own keys are enumerated with the integer-like keys
\* first, in ascending order, then the other keys in creation order.
RECURSIVE IndexEntries(_, _)
IndexEntries(e, j) ==
    IF j > Len(IndexKeys) THEN <<>>
    ELSE SelectSeq(e, LAMBDA p : p[1] = IndexKeys[j]) \o IndexEntries(e, j + 1)

Entries(e) == IndexEntries(e, 1) \o SelectSeq(e, LAMBDA p : ~IsIndexKey(p[1]))

\* Object.entries(shape), a shape being held as its fields in the order the
\* caller wrote them
RECURSIVE ShapeIndexEntries(_, _)
ShapeIndexEntries(shape, j) ==
    IF j > Len(IndexKeys) THEN <<>>
    ELSE SelectSeq(shape, LAMBDA f : f.key = IndexKeys[j])
            \o ShapeIndexEntries(shape, j + 1)

ShapeEntries(shape) ==
    ShapeIndexEntries(shape, 1) \o SelectSeq(shape, LAMBDA f : ~IsIndexKey(f.key))

\* Object.keys(o)
ObjectKeys(e) == [i \in 1..Len(e) |-> Entries(e)[i][1]]

HasKey(e, k) == \E i \in 1..Len(e) : e[i][1] = k

\* o[k]: the property's value, undefined when the key is missing
GetProp(e, k) ==
    IF HasKey(e, k)
    THEN e[CHOOSE i \in 1..Len(e) : e[i][1] = k][2]
    ELSE Undefined

\* o[k] = v: overwrite in place, or create the property; the object built is
\* held in the order its keys are enumerated
SetProp(e, k, v) ==
    IF HasKey(e, k)
    THEN [i \in 1..Len(e) |-> IF e[i][1] = k THEN <<k, v>> ELSE e[i]]
    ELSE Entries(Append(e, <<k, v>>))

\* path segments: an object key or an array index
KeySeg(k) == [key |-> k]
IdxSeg(i) == [idx |-> i]

\* Array.prototype.join(', ') over strings
RECURSIVE JoinComma(_)
JoinComma(s) ==
    IF Len(s) = 0 THEN ""
    ELSE IF Len(s) = 1 THEN s[1]
    ELSE s[1] \o ", " \o JoinComma(Tail(s))

\* String(v) of a number
NumToStr(v) ==
    CASE v = NaN -> "NaN"
      [] v = Infinity -> "Infinity"
      [] v = MIN_VALUE -> "5e-324"
      [] v = NegMIN_VALUE -> "-5e-324"
      [] "frac" \in DOMAIN v /\ v.num >= 0 -> ToString(v.num) \o ".5"
      [] "frac" \in DOMAIN v /\ v.num < 0 -> "-" \o ToString(-v.num - 1) \o ".5"
      [] OTHER -> ToString(v.num)

RECURSIVE ToStr(_)

\* Array.prototype.join(','): null and undefined elements give '', every
\* other element its String()
RECURSIVE ArrayJoin(_)
ArrayJoin(a) ==
    IF Len(a) = 0 THEN ""
    ELSE (IF a[1].t \in {"null", "undefined"} THEN "" ELSE ToStr(a[1]))
            \o (IF Len(a) = 1 THEN "" ELSE "," \o ArrayJoin(Tail(a)))

\* String(v): an array is its elements joined by ',', a plain object is
\* '[object Object]'
ToStr(v) ==
    CASE v.t = "string" -> v.str
      [] v.t = "number" -> NumToStr(v)
      [] v.t = "boolean" -> IF v.bool THEN "true" ELSE "false"
      [] v.t = "null" -> "null"
      [] v.t = "undefined" -> "undefined"
      [] v.t = "array" -> ArrayJoin(v.arr)
      [] v.t = "symbol" -> "Symbol()"
      [] OTHER -> "[object Object]"

\* the TypeError the engine throws when a value has no primitive to convert to
TypeError == [name |-> "TypeError"]

\* String(v) throws: an object without toString and valueOf has no
\* primitive; an array is joined, which converts each element that is
\* neither null nor undefined, and the conversion of a Symbol element throws
RECURSIVE StringThrows(_)
StringThrows(v) ==
    CASE v.t = "object" -> "proto" \in DOMAIN v
      [] v.t = "array" ->
            \E i \in 1..Len(v.arr) : v.arr[i].t = "symbol" \/ StringThrows(v.arr[i])
      [] OTHER -> FALSE

\* Number(v) throws: a Symbol has no number, an object is converted through
\* its primitive
NumberThrows(v) == v.t = "symbol" \/ StringThrows(v)

\* the numerals the model reads out of a string
Numerals == 0..20

\* Number(s) of a string, on the strings of the model
StringToNumber(s) ==
    IF s = "" THEN Num(0)
    ELSE IF s = "Infinity" THEN Infinity
    ELSE IF \E n \in Numerals : ToString(n) = s
    THEN Num(CHOOSE n \in Numerals : ToString(n) = s)
    ELSE IF \E n \in Numerals : ToString(n) \o ".5" = s
    THEN Half(CHOOSE n \in Numerals : ToString(n) \o ".5" = s)
    ELSE NaN

\* Number(v) of a value that has one
ToNumber(v) ==
    CASE v.t = "number" -> v
      [] v.t = "string" -> StringToNumber(v.str)
      [] v.t = "boolean" -> IF v.bool THEN Num(1) ELSE Num(0)
      [] v.t = "null" -> Num(0)
      [] v.t = "array" -> StringToNumber(ArrayJoin(v.arr))
      [] OTHER -> NaN

\* `x ?? d` on an optional string field
OrElse(v, d) == IF v.t \in {"undefined", "null"} THEN d ELSE ToStr(v)

(***************************************************************************)
(* Error maps.  An error map is a function from an issue to a message; the *)
(* model names the ones the repository defines or its tests install.       *)
(***************************************************************************)
Plural(n) == IF n = Num(1) THEN "" ELSE "s"

defaultErrorMap(issue) ==
    CASE issue.code = "invalid_type" ->
            "Expected " \o OrElse(issue.expected, "unknown")
                \o ", received " \o OrElse(issue.received, "unknown")
      [] issue.code = "too_small" ->
            LET min == IF issue.minimum.t = "number" THEN issue.minimum ELSE Num(0)
            IN  IF issue.expected = Str("string")
                THEN "String must contain at least " \o ToStr(min)
                        \o " character" \o Plural(min)
                ELSE IF issue.expected = Str("array")
                THEN "Array must contain at least " \o ToStr(min)
                        \o " element" \o Plural(min)
                ELSE "Value must be greater than or equal to " \o ToStr(min)
      [] issue.code = "too_big" ->
            LET max == IF issue.maximum.t = "number" THEN issue.maximum ELSE Num(0)
            IN  IF issue.expected = Str("string")
                THEN "String must contain at most " \o ToStr(max)
                        \o " character" \o Plural(max)
                ELSE IF issue.expected = Str("array")
                THEN "Array must contain at most " \o ToStr(max)
                        \o " element" \o Plural(max)
                ELSE "Value must be less than or equal to " \o ToStr(max)
      [] issue.code = "invalid_string" ->
            "Invalid " \o OrElse(issue.expected, "format")
      [] issue.code = "invalid_enum" ->
            "Invalid enum value. Expected "
                \o (IF issue.options.t = "array"
                    THEN JoinComma([i \in 1..Len(issue.options.arr) |->
                                        ToStr(issue.options.arr[i])])
                    ELSE "")
                \o ", received '" \o OrElse(issue.received, "unknown") \o "'"
      [] issue.code = "invalid_literal" ->
            "Invalid literal value, expected " \o OrElse(issue.expected, "unknown")
      [] issue.code = "invalid_union" -> "Invalid input"
      [] issue.code = "unrecognized_keys" -> "Unrecognized keys in object"
      [] issue.code = "invalid_date" -> "Invalid date"
      [] issue.code = "custom" ->
            IF issue.message # "" THEN issue.message ELSE "Validation failed"
      [] OTHER -> "Validation failed"

\* the maps callers install: `() => 'Custom error'` and
\* `(issue) => `Custom: ${issue.code}``
ErrorMapNames == {"defaultErrorMap", "customMap", "codeMap"}

CallErrorMap(name, issue) ==
    CASE name = "defaultErrorMap" -> defaultErrorMap(issue)
      [] name = "customMap" -> "Custom error"
      [] name = "codeMap" -> "Custom: " \o issue.code

\* getErrorMessage(issue) as _createError calls it: no custom message
getErrorMessage(issue, cem) == CallErrorMap(cem, issue)

(***************************************************************************)
(* BaseType helpers.                                                       *)
(***************************************************************************)
\* a CreateErrorOptions literal with every optional member left out
NoOptions ==
    [code |-> "", expected |-> Undefined, received |-> Undefined,
     minimum |-> Undefined, maximum |-> Undefined, inclusive |-> Undefined,
     options |-> Undefined, message |-> Undefined]

ValidationError(issues) == [issues |-> issues]

Success(data) == [success |-> TRUE, data |-> data]
Failure(error) == [success |-> FALSE, error |-> error]

\* BaseType._createError; g.errorMap is the process-wide map read by
\* getErrorMessage
createError(ctx, options, g) ==
    LET issue == [code |-> options.code, path |-> ctx.path, message |-> "",
                  expected |-> options.expected, received |-> options.received,
                  minimum |-> options.minimum, maximum |-> options.maximum,
                  inclusive |-> options.inclusive, options |-> options.options]
        message ==
            IF Truthy(ctx.errorMap) THEN CallErrorMap(ctx.errorMap.fn, issue)
            ELSE IF Truthy(options.message) THEN options.message.str
            ELSE getErrorMessage(issue, g.errorMap)
    IN  Failure(ValidationError(<<[issue EXCEPT !.message = message]>>))

\* errors.flatMap((e) => e.issues)
RECURSIVE FlatIssues(_)
FlatIssues(errors) ==
    IF Len(errors) = 0 THEN <<>>
    ELSE errors[1].issues \o FlatIssues(Tail(errors))

\* _mergeErrors keeping the errors apart instead of flattening their issues
mergeErrors_Unmerged(errors) == ValidationError(errors)
\* BaseType._mergeErrors
mergeErrors(errors) == ValidationError(FlatIssues(errors))

\* the walk's result together with the callback state it leaves behind
Ret(result, g) == [result |-> result, g |-> g]

\* an exception in flight: the walk returns no result, and nothing on the way
\* up to the caller of parse or safeParse catches it
Raise(e, g) == [raised |-> e, g |-> g]
IsRaised(r) == "raised" \in DOMAIN r

\* received: value === null ? 'null' : typeof value
ReceivedType(v) == Str(IF v.t = "null" THEN "null" ELSE TypeOf(v))

(***************************************************************************)
(* User callbacks.  The callbacks are the ones the repository's tests pass *)
(* to default(), transform() and refine(); each invocation is appended to  *)
(* g.log, and the generator advances g.counter.                            *)
(***************************************************************************)
Called(g, name, args) == [g EXCEPT !.log = Append(@, [fn |-> name, args |-> args])]

\* the strings of the model
Strings == {"", "x", "hello", " hi ", "hi", "Ab1", "a@b.com", "1.0.0", "2024-01-15"}

\* String.prototype.toUpperCase on the strings of the model
toUpperCase(s) ==
    CASE s = "x" -> "X"
      [] s = "hello" -> "HELLO"
      [] s = " hi " -> " HI "
      [] s = "hi" -> "HI"
      [] s = "Ab1" -> "AB1"
      [] s = "a@b.com" -> "A@B.COM"
      [] s = "true" -> "TRUE"
      [] s = "false" -> "FALSE"
      [] s = "Symbol()" -> "SYMBOL()"
      [] s = "[object Object]" -> "[OBJECT OBJECT]"
      [] s = "x," -> "X,"
      [] OTHER -> s

\* String.prototype.trim on the strings of the model
trim(s) == IF s = " hi " THEN "hi" ELSE s

\* (val) => val.toUpperCase(), (val) => val.trim(), (val) => val.length,
\* (val) => val * 2, (val) => (val === undefined ? 'none' : val.toUpperCase())
TransformNames == {"toUpperCase", "trim", "length", "double", "orNone"}

\* the body of each transform function
ApplyTransform(name, v) ==
    CASE name = "toUpperCase" -> Str(toUpperCase(v.str))
      [] name = "trim" -> Str(trim(v.str))
      [] name = "length" -> Num(Len(v.str))
      [] name = "double" -> Num(v.num * 2)
      [] name = "orNone" ->
            IF v = Undefined THEN Str("none") ELSE Str(toUpperCase(v.str))

\* the call of a transform function throws: a method of a value that has
\* none (val.toUpperCase, val.trim), a property of null or undefined
TransformThrows(name, v) ==
    CASE name \in {"toUpperCase", "trim"} -> v.t # "string"
      [] name = "length" -> v.t \in {"null", "undefined"}
      [] name = "orNone" -> v # Undefined /\ v.t # "string"
      [] OTHER -> FALSE

\* value.replace(/\D/g, '').split('').map((d) => Number.parseInt(d, 10)):
\* the digits of a string, on the strings of the model
DigitsOf(s) ==
    CASE s = "0" ->
            <<0>>
      [] s = "1.0.0" ->
            <<1, 0, 0>>
      [] s = "Ab1" ->
            <<1>>
      [] s = "AB1" ->
            <<1>>
      [] s = "2024-01-15" ->
            <<2, 0, 2, 4, 0, 1, 1, 5>>
      [] s = "2024-01-15T10:30:00Z" ->
            <<2, 0, 2, 4, 0, 1, 1, 5, 1, 0, 3, 0, 0, 0>>
      [] s = "550e8400-e29b-41d4-a716-446655440000" ->
            <<5, 5, 0, 8, 4, 0, 0, 2, 9, 4, 1, 4, 7, 1, 6, 4, 4, 6, 6, 5, 5, 4, 4, 0, 0, 0, 0>>
      [] s = "550E8400-E29B-41D4-A716-446655440000" ->
            <<5, 5, 0, 8, 4, 0, 0, 2, 9, 4, 1, 4, 7, 1, 6, 4, 4, 6, 6, 5, 5, 4, 4, 0, 0, 0, 0>>
      [] s = "529.982.247-25" ->
            <<5, 2, 9, 9, 8, 2, 2, 4, 7, 2, 5>>
      [] s = "52998224725" ->
            <<5, 2, 9, 9, 8, 2, 2, 4, 7, 2, 5>>
      [] s = "529.982.247-26" ->
            <<5, 2, 9, 9, 8, 2, 2, 4, 7, 2, 6>>
      [] s = "111.111.111-11" ->
            <<1, 1, 1, 1, 1, 1, 1, 1, 1, 1, 1>>
      [] s = "11.222.333/0001-81" ->
            <<1, 1, 2, 2, 2, 3, 3, 3, 0, 0, 0, 1, 8, 1>>
      [] s = "11.222.333/0001-82" ->
            <<1, 1, 2, 2, 2, 3, 3, 3, 0, 0, 0, 1, 8, 2>>
      [] s = "01310-100" ->
            <<0, 1, 3, 1, 0, 1, 0, 0>>
      [] s = "00000-000" ->
            <<0, 0, 0, 0, 0, 0, 0, 0>>
      [] OTHER -> <<>>

\* /^(\d)\1+$/.test(digits): one digit repeated
AllSameDigit(nums) == Len(nums) > 1 /\ \A i \in 1..Len(nums) : nums[i] = nums[1]

\* sum += num * weight over the first n digits, weights counting down from w
RECURSIVE CountdownSum(_, _, _)
CountdownSum(nums, n, w) ==
    IF n = 0 THEN 0 ELSE CountdownSum(nums, n - 1, w) + nums[n] * (w - (n - 1))

\* (sum * 10) % 11, with 10 and 11 turned into 0
CPFCheckDigit(sum) ==
    LET remainder == (sum * 10) % 11
    IN  IF remainder = 10 \/ remainder = 11 THEN 0 ELSE remainder

\* isValidCPF
isValidCPF(cpf) ==
    LET nums == DigitsOf(cpf) IN
    /\ Len(nums) = 11
    /\ ~AllSameDigit(nums)
    /\ CPFCheckDigit(CountdownSum(nums, 9, 10)) = nums[10]
    /\ CPFCheckDigit(CountdownSum(nums, 10, 11)) = nums[11]

firstMultipliers == <<5, 4, 3, 2, 9, 8, 7, 6, 5, 4, 3, 2>>
secondMultipliers == <<6, 5, 4, 3, 2, 9, 8, 7, 6, 5, 4, 3, 2>>

\* sum += num * mult over the multipliers
RECURSIVE MultiplierSum(_, _, _)
MultiplierSum(nums, multipliers, n) ==
    IF n = 0 THEN 0
    ELSE MultiplierSum(nums, multipliers, n - 1) + nums[n] * multipliers[n]

\* remainder < 2 ? 0 : 11 - remainder
CNPJCheckDigit(sum) ==
    LET remainder == sum % 11 IN IF remainder < 2 THEN 0 ELSE 11 - remainder

\* isValidCNPJ
isValidCNPJ(cnpj) ==
    LET nums == DigitsOf(cnpj) IN
    /\ Len(nums) = 14
    /\ ~AllSameDigit(nums)
    /\ CNPJCheckDigit(MultiplierSum(nums, firstMultipliers, 12)) = nums[13]
    /\ CNPJCheckDigit(MultiplierSum(nums, secondMultipliers, 13)) = nums[14]

\* isValidCEP
isValidCEP(cep) ==
    LET nums == DigitsOf(cep) IN
    /\ Len(nums) = 8
    /\ nums # <<0, 0, 0, 0, 0, 0, 0, 0>>

\* the refine predicates: /[A-Z]/.test(val), /[a-z]/.test(val), /[0-9]/.test(val)
PredicateNames == {"hasUppercase", "hasLowercase", "hasNumber"}

\* the body of each refine predicate, on the strings of the model
ApplyPredicate(name, s) ==
    CASE name = "hasUppercase" ->
            s \in {"Ab1", "X", "HELLO", " HI ", "HI", "AB1", "A@B.COM",
                   "2024-01-15T10:30:00Z", "550E8400-E29B-41D4-A716-446655440000"}
      [] name = "hasLowercase" ->
            s \in {"x", "y", "hello", " hi ", "hi", "Ab1", "a@b.com", "not-an-email",
                   "550e8400-e29b-41d4-a716-446655440000"}
      [] name = "hasNumber" -> Len(DigitsOf(s)) > 0
      [] name = "isValidCPF" -> isValidCPF(s)
      [] name = "isValidCNPJ" -> isValidCNPJ(s)
      [] name = "isValidCEP" -> isValidCEP(s)

\* RegExp.prototype.test for the PATTERNS presets and the caller-supplied
\* /^\d+\.\d+\.\d+$/, decided on the strings of the model
PatternTest(pattern, s) ==
    CASE pattern = "email" -> s \in {"a@b.com", "A@B.COM"}
      [] pattern = "uuid" -> s \in {"550e8400-e29b-41d4-a716-446655440000",
                                     "550E8400-E29B-41D4-A716-446655440000"}
      [] pattern = "uuid-case-sensitive" ->
            s = "550e8400-e29b-41d4-a716-446655440000"
      [] pattern = "date" -> s = "2024-01-15"
      [] pattern = "datetime" -> s = "2024-01-15T10:30:00Z"
      [] pattern = "version" -> s = "1.0.0"

\* RegExp.prototype.test.  A regex without the g flag reads and writes nothing.
\* A regex with it starts the search at its lastIndex and writes lastIndex:
\* the end of the match, or 0 when there is none.  Every pattern of the model
\* is anchored (^...$), so it can match only from index 0 and the match ends
\* at the end of the string.  g.lastIndex holds the lastIndex of the RegExp
\* objects, which the clones of a validator share.
RegExpTest(regex, s, g) ==
    IF "flags" \in DOMAIN regex
    THEN IF g.lastIndex[regex.re] = 0 /\ PatternTest(regex.re, s)
         THEN [matched |-> TRUE, g |-> [g EXCEPT !.lastIndex[regex.re] = Len(s)]]
         ELSE [matched |-> FALSE, g |-> [g EXCEPT !.lastIndex[regex.re] = 0]]
    ELSE [matched |-> PatternTest(regex.re, s), g |-> g]

(***************************************************************************)
(* Numbers: comparison through the value records.                          *)
(***************************************************************************)
IsNaN(v) == v = NaN
IsFinite(v) == "num" \in DOMAIN v
IsInteger(v) == IsFinite(v) /\ "frac" \notin DOMAIN v

\* the place of a number's fraction among the fractions the model has
FracRank(v) ==
    IF "frac" \notin DOMAIN v THEN 0
    ELSE CASE v.frac = "MIN_VALUE" -> 1
           [] v.frac = "0.5" -> 2
           [] v.frac = "1-MIN_VALUE" -> 3

\* a < b and a > b on finite numbers
NumLt(a, b) == a.num < b.num \/ (a.num = b.num /\ FracRank(a) < FracRank(b))
NumGt(a, b) == NumLt(b, a)

(***************************************************************************)
(* Primitive validators.                                                   *)
(***************************************************************************)
\* for (const validator of customValidators): first failure wins
RECURSIVE RunCustomValidators(_, _, _, _, _)
RunCustomValidators(validators, i, value, ctx, g) ==
    IF i > Len(validators) THEN Ret(Success(value), g)
    ELSE LET g1 == Called(g, validators[i].validate, <<value>>)
         IN  IF ~ApplyPredicate(validators[i].validate, value.str)
             THEN Ret(createError(ctx, [NoOptions EXCEPT !.code = "custom",
                                        !.message = validators[i].message], g1), g1)
             ELSE RunCustomValidators(validators, i + 1, value, ctx, g1)

\* StringType._parse testing the pattern before the length bounds
StringType_parse_PatternFirst(node, value, ctx, g) ==
    LET o == node.options IN
    IF TypeOf(value) # "string"
    THEN Ret(createError(ctx, [NoOptions EXCEPT !.code = "invalid_type",
                !.expected = Str("string"), !.received = ReceivedType(value)], g), g)
    ELSE IF o.pattern # Undefined /\ ~PatternTest(o.pattern.re, value.str)
    THEN Ret(createError(ctx, [NoOptions EXCEPT !.code = "invalid_string",
                !.expected = IF o.format = Undefined THEN Str("pattern") ELSE o.format,
                !.message = o.customMessages.pattern], g), g)
    ELSE IF o.minLength # Undefined /\ Len(value.str) < o.minLength.num
    THEN Ret(createError(ctx, [NoOptions EXCEPT !.code = "too_small",
                !.minimum = o.minLength, !.expected = Str("string"),
                !.message = o.customMessages.min], g), g)
    ELSE IF o.maxLength # Undefined /\ Len(value.str) > o.maxLength.num
    THEN Ret(createError(ctx, [NoOptions EXCEPT !.code = "too_big",
                !.maximum = o.maxLength, !.expected = Str("string"),
                !.message = o.customMessages.max], g), g)
    ELSE RunCustomValidators(o.customValidators, 1, value, ctx, g)
\* StringType._parse
StringType_parse(node, value, ctx, g) ==
    LET o == node.options IN
    IF TypeOf(value) # "string"
    THEN Ret(createError(ctx, [NoOptions EXCEPT !.code = "invalid_type",
                !.expected = Str("string"), !.received = ReceivedType(value)], g), g)
    ELSE IF o.minLength # Undefined /\ Len(value.str) < o.minLength.num
    THEN Ret(createError(ctx, [NoOptions EXCEPT !.code = "too_small",
                !.minimum = o.minLength, !.expected = Str("string"),
                !.message = o.customMessages.min], g), g)
    ELSE IF o.maxLength # Undefined /\ Len(value.str) > o.maxLength.num
    THEN Ret(createError(ctx, [NoOptions EXCEPT !.code = "too_big",
                !.maximum = o.maxLength, !.expected = Str("string"),
                !.message = o.customMessages.max], g), g)
    ELSE IF o.pattern # Undefined /\ ~RegExpTest(o.pattern, value.str, g).matched
    THEN Ret(createError(ctx, [NoOptions EXCEPT !.code = "invalid_string",
                !.expected = IF o.format = Undefined THEN Str("pattern") ELSE o.format,
                !.message = o.customMessages.pattern], g),
             RegExpTest(o.pattern, value.str, g).g)
    ELSE RunCustomValidators(o.customValidators, 1, value, ctx,
            IF o.pattern # Undefined THEN RegExpTest(o.pattern, value.str, g).g
            ELSE g)

\* NumberType._parse
NumberType_parse(node, value, ctx, g) ==
    LET o == node.options IN
    IF TypeOf(value) # "number" \/ IsNaN(value) \/ ~IsFinite(value)
    THEN Ret(createError(ctx, [NoOptions EXCEPT !.code = "invalid_type",
                !.expected = Str("number"), !.received = ReceivedType(value)], g), g)
    ELSE IF Truthy(o.isInt) /\ ~IsInteger(value)
    THEN Ret(createError(ctx, [NoOptions EXCEPT !.code = "invalid_type",
                !.expected = Str("integer"), !.received = Str("float"),
                !.message = o.customMessages.int], g), g)
    ELSE IF o.minimum # Undefined /\ NumLt(value, o.minimum)
    THEN Ret(createError(ctx, [NoOptions EXCEPT !.code = "too_small",
                !.minimum = o.minimum, !.expected = Str("number"),
                !.message = o.customMessages.min], g), g)
    ELSE IF o.maximum # Undefined /\ NumGt(value, o.maximum)
    THEN Ret(createError(ctx, [NoOptions EXCEPT !.code = "too_big",
                !.maximum = o.maximum, !.expected = Str("number"),
                !.message = o.customMessages.max], g), g)
    ELSE Ret(Success(value), g)

\* BooleanType._parse
BooleanType_parse(node, value, ctx, g) ==
    IF TypeOf(value) # "boolean"
    THEN Ret(createError(ctx, [NoOptions EXCEPT !.code = "invalid_type",
                !.expected = Str("boolean"), !.received = ReceivedType(value)], g), g)
    ELSE Ret(Success(value), g)

\* CoercedStringType._parse
CoercedStringType_parse(value, ctx, g) ==
    IF value = Null \/ value = Undefined
    THEN Ret(createError(ctx, [NoOptions EXCEPT !.code = "invalid_type",
                !.expected = Str("string"),
                !.received = Str(IF value = Null THEN "null" ELSE "undefined")], g), g)
    ELSE IF StringThrows(value) THEN Raise(TypeError, g)
    ELSE Ret(Success(Str(ToStr(value))), g)

\* CoercedNumberType._parse
CoercedNumberType_parse(value, ctx, g) ==
    IF value = Null \/ value = Undefined
    THEN Ret(createError(ctx, [NoOptions EXCEPT !.code = "invalid_type",
                !.expected = Str("number"),
                !.received = Str(IF value = Null THEN "null" ELSE "undefined")], g), g)
    ELSE IF NumberThrows(value) THEN Raise(TypeError, g)
    ELSE IF IsNaN(ToNumber(value))
    THEN Ret(createError(ctx, [NoOptions EXCEPT !.code = "invalid_type",
                !.expected = Str("number"),
                !.received = Str(TypeOf(value))], g), g)
    ELSE Ret(Success(ToNumber(value)), g)

\* CoercedBooleanType._parse without the branches for 'true', 'false', 1, 0
CoercedBooleanType_parse_Truthy(value, ctx, g) ==
    IF value = Null \/ value = Undefined
    THEN Ret(createError(ctx, [NoOptions EXCEPT !.code = "invalid_type",
                !.expected = Str("boolean"),
                !.received = Str(IF value = Null THEN "null" ELSE "undefined")], g), g)
    ELSE Ret(Success(Bool(Truthy(value))), g)

\* CoercedBooleanType._parse
CoercedBooleanType_parse(value, ctx, g) ==
    IF value = Null \/ value = Undefined
    THEN Ret(createError(ctx, [NoOptions EXCEPT !.code = "invalid_type",
                !.expected = Str("boolean"),
                !.received = Str(IF value = Null THEN "null" ELSE "undefined")], g), g)
    ELSE IF value = Str("true") THEN Ret(Success(Bool(TRUE)), g)
    ELSE IF value = Str("false") THEN Ret(Success(Bool(FALSE)), g)
    ELSE IF value = Num(1) THEN Ret(Success(Bool(TRUE)), g)
    ELSE IF value = Num(0) THEN Ret(Success(Bool(FALSE)), g)
    ELSE IF TypeOf(value) = "boolean" THEN Ret(Success(value), g)
    ELSE Ret(Success(Bool(Truthy(value))), g)

\* received: null, undefined, or String(input)
ReceivedValue(v) ==
    Str(IF v.t = "null" THEN "null"
        ELSE IF TypeOf(v) = "undefined" THEN "undefined" ELSE ToStr(v))

\* LiteralType._parse
LiteralType_parse(node, input, ctx, g) ==
    IF input # node.value
    THEN IF StringThrows(input) THEN Raise(TypeError, g)
    ELSE Ret(createError(ctx, [NoOptions EXCEPT !.code = "invalid_literal",
                !.expected = Str(ToStr(node.value)),
                !.received = ReceivedValue(input)], g), g)
    ELSE Ret(Success(input), g)

\* EnumType._parse
EnumType_parse(node, input, ctx, g) ==
    IF ~\E i \in 1..Len(node.options) : node.options[i] = input
    THEN IF StringThrows(input) THEN Raise(TypeError, g)
    ELSE Ret(createError(ctx, [NoOptions EXCEPT !.code = "invalid_enum",
                !.options = Arr(node.options),
                !.received = ReceivedValue(input)], g), g)
    ELSE Ret(Success(input), g)

(***************************************************************************)
(* The walk.  parse(h, ref, value, ctx, g) is the virtual call             *)
(* h[ref]._parse(value, ctx); the composite and modifier kinds call it     *)
(* for their children.                                                     *)
(***************************************************************************)
RECURSIVE parse(_, _, _, _, _)
RECURSIVE ObjectShapeLoop(_, _, _, _, _, _)
RECURSIVE ArrayElementLoop(_, _, _, _, _, _)
RECURSIVE UnionOptionLoop(_, _, _, _, _, _)
RECURSIVE ObjectShapeLoop_KeepUndefined(_, _, _, _, _, _)
RECURSIVE ArrayElementLoop_OneBased(_, _, _, _, _, _)
RECURSIVE ArrayElementLoop_FirstFailure(_, _, _, _, _, _)
RECURSIVE UnionOptionLoop_LastError(_, _, _, _, _, _)

\* OptionalType._parse testing `value == null`: null is let through as well
OptionalType_parse_LooseNull(h, node, value, ctx, g) ==
    IF value = Undefined \/ value = Null THEN Ret(Success(Undefined), g)
    ELSE parse(h, node.innerType, value, ctx, g)

\* OptionalType._parse
OptionalType_parse(h, node, value, ctx, g) ==
    IF value = Undefined THEN Ret(Success(Undefined), g)
    ELSE parse(h, node.innerType, value, ctx, g)

\* NullableType._parse
NullableType_parse(h, node, value, ctx, g) ==
    IF value = Null THEN Ret(Success(Null), g)
    ELSE parse(h, node.innerType, value, ctx, g)

\* NullishType._parse
NullishType_parse(h, node, value, ctx, g) ==
    IF value = Undefined \/ value = Null THEN Ret(Success(value), g)
    ELSE parse(h, node.innerType, value, ctx, g)

\* the generator `() => ++counter`
CallGenerator(name, g) ==
    LET g1 == Called([g EXCEPT !.counter = @ + 1], name, <<>>)
    IN  [value |-> Num(g1.counter), g |-> g1]

\* DefaultType._parse testing `value == null`: the default replaces null too
DefaultType_parse_LooseNull(h, node, value, ctx, g) ==
    IF value = Undefined \/ value = Null
    THEN IF TypeOf(node.defaultValue) = "function"
         THEN LET c == CallGenerator(node.defaultValue.fn, g)
              IN  Ret(Success(c.value), c.g)
         ELSE Ret(Success(node.defaultValue), g)
    ELSE parse(h, node.innerType, value, ctx, g)

\* DefaultType._parse
DefaultType_parse(h, node, value, ctx, g) ==
    IF value = Undefined
    THEN IF TypeOf(node.defaultValue) = "function"
         THEN LET c == CallGenerator(node.defaultValue.fn, g)
              IN  Ret(Success(c.value), c.g)
         ELSE Ret(Success(node.defaultValue), g)
    ELSE parse(h, node.innerType, value, ctx, g)

\* TransformType._parse returning the inner result without mapping it
TransformType_parse_Unmapped(h, node, value, ctx, g) ==
    parse(h, node.innerType, value, ctx, g)

\* TransformType._parse
TransformType_parse(h, node, value, ctx, g) ==
    LET r == parse(h, node.innerType, value, ctx, g) IN
    IF IsRaised(r) THEN r
    ELSE IF ~r.result.success THEN r
    ELSE IF TransformThrows(node.transformFn, r.result.data)
    THEN Raise(TypeError, Called(r.g, node.transformFn, <<r.result.data>>))
    ELSE Ret(Success(ApplyTransform(node.transformFn, r.result.data)),
             Called(r.g, node.transformFn, <<r.result.data>>))

\* RequiredWrapper._parse
RequiredWrapper_parse(h, node, value, ctx, g) ==
    IF value = Undefined
    THEN Ret(createError(ctx, [NoOptions EXCEPT !.code = "invalid_type",
                !.expected = Str("value"), !.received = Str("undefined")], g), g)
    ELSE LET r == parse(h, node.innerOptional, value, ctx, g) IN
         IF IsRaised(r) THEN r
         ELSE IF ~r.result.success THEN r
         ELSE Ret(Success(r.result.data), r.g)

\* the shape loop without the `propResult.data !== undefined` test
ObjectShapeLoop_KeepUndefined(h, shape, i, input, ctx, acc) ==
    IF i > Len(shape) THEN acc
    ELSE LET key == shape[i].key
             propCtx == [ctx EXCEPT !.path = Append(ctx.path, KeySeg(key))]
             r == parse(h, shape[i].schema, GetProp(input, key), propCtx, acc.g)
             acc1 ==
                IF ~r.result.success
                THEN [acc EXCEPT !.errors = Append(@, r.result.error), !.g = r.g]
                ELSE [acc EXCEPT !.result = SetProp(@, key, r.result.data), !.g = r.g]
         IN  IF IsRaised(r) THEN r
             ELSE ObjectShapeLoop_KeepUndefined(h, shape, i + 1, input, ctx, acc1)

\* for (const [key, schema] of Object.entries(this.shape)): acc carries
\* result, errors and the callback state
ObjectShapeLoop(h, shape, i, input, ctx, acc) ==
    IF i > Len(shape) THEN acc
    ELSE LET key == shape[i].key
             propValue == GetProp(input, key)
             propCtx == [ctx EXCEPT !.path = Append(ctx.path, KeySeg(key))]
             r == parse(h, shape[i].schema, propValue, propCtx, acc.g)
             propResult == r.result
             acc1 ==
                IF ~propResult.success
                THEN [acc EXCEPT !.errors = Append(@, propResult.error), !.g = r.g]
                ELSE IF propResult.data # Undefined
                THEN [acc EXCEPT !.result = SetProp(@, key, propResult.data),
                                 !.g = r.g]
                ELSE [acc EXCEPT !.g = r.g]
         IN  IF IsRaised(r) THEN r
             ELSE ObjectShapeLoop(h, shape, i + 1, input, ctx, acc1)

\* Object.keys(input).filter((k) => !shapeKeys.has(k))
UnknownKeysFound(shape, input) ==
    SelectSeq(ObjectKeys(input), LAMBDA k : ~\E i \in 1..Len(shape) : shape[i].key = k)

\* the passthrough loop copying nothing
CopyKeys_Nothing(result, keys, input) == result

\* for (const key of unknownKeysFound) result[key] = input[key]
RECURSIVE CopyKeys(_, _, _)
CopyKeys(result, keys, input) ==
    IF Len(keys) = 0 THEN result
    ELSE CopyKeys(SetProp(result, keys[1], GetProp(input, keys[1])), Tail(keys), input)

\* ObjectType._parse
ObjectType_parse(h, node, value, ctx, g) ==
    IF TypeOf(value) # "object" \/ value = Null \/ IsArray(value)
    THEN Ret(createError(ctx, [NoOptions EXCEPT !.code = "invalid_type",
                !.expected = Str("object"),
                !.received = Str(IF value = Null THEN "null"
                                 ELSE IF IsArray(value) THEN "array"
                                 ELSE TypeOf(value))], g), g)
    ELSE LET input == value.obj
             acc == ObjectShapeLoop(h, ShapeEntries(node.shape), 1, input, ctx,
                                    [result |-> <<>>, errors |-> <<>>, g |-> g])
             unknownKeysFound == UnknownKeysFound(node.shape, input)
             result == IF node.unknownKeys = "passthrough"
                       THEN CopyKeys(acc.result, unknownKeysFound, input)
                       ELSE acc.result
         IN  IF IsRaised(acc) THEN acc
             ELSE IF node.unknownKeys = "strict" /\ Len(unknownKeysFound) > 0
             THEN Ret(createError(ctx, [NoOptions EXCEPT !.code = "unrecognized_keys",
                        !.message = Str("Unrecognized keys: "
                                        \o JoinComma(unknownKeysFound))], acc.g), acc.g)
             ELSE IF Len(acc.errors) > 0
             THEN Ret(Failure(mergeErrors(acc.errors)), acc.g)
             ELSE Ret(Success(Obj(result)), acc.g)

\* the element loop stopping at the first element that fails
ArrayElementLoop_FirstFailure(h, node, i, value, ctx, acc) ==
    IF i >= Len(value) \/ Len(acc.errors) > 0 THEN acc
    ELSE LET elementCtx == [ctx EXCEPT !.path = Append(ctx.path, IdxSeg(i))]
             r == parse(h, node.element, value[i + 1], elementCtx, acc.g)
             acc1 ==
                IF ~r.result.success
                THEN [acc EXCEPT !.errors = Append(@, r.result.error), !.g = r.g]
                ELSE [acc EXCEPT !.result = Append(@, r.result.data), !.g = r.g]
         IN  IF IsRaised(r) THEN r
             ELSE ArrayElementLoop_FirstFailure(h, node, i + 1, value, ctx, acc1)
\* the element loop extending the path with a 1-based index
ArrayElementLoop_OneBased(h, node, i, value, ctx, acc) ==
    IF i >= Len(value) THEN acc
    ELSE LET elementCtx == [ctx EXCEPT !.path = Append(ctx.path, IdxSeg(i + 1))]
             r == parse(h, node.element, value[i + 1], elementCtx, acc.g)
             acc1 ==
                IF ~r.result.success
                THEN [acc EXCEPT !.errors = Append(@, r.result.error), !.g = r.g]
                ELSE [acc EXCEPT !.result = Append(@, r.result.data), !.g = r.g]
         IN  IF IsRaised(r) THEN r
             ELSE ArrayElementLoop_OneBased(h, node, i + 1, value, ctx, acc1)

\* for (let i = 0; i < value.length; i++); i is the 0-based index
ArrayElementLoop(h, node, i, value, ctx, acc) ==
    IF i >= Len(value) THEN acc
    ELSE LET elementCtx == [ctx EXCEPT !.path = Append(ctx.path, IdxSeg(i))]
             r == parse(h, node.element, value[i + 1], elementCtx, acc.g)
             acc1 ==
                IF ~r.result.success
                THEN [acc EXCEPT !.errors = Append(@, r.result.error), !.g = r.g]
                ELSE [acc EXCEPT !.result = Append(@, r.result.data), !.g = r.g]
         IN  IF IsRaised(r) THEN r
             ELSE ArrayElementLoop(h, node, i + 1, value, ctx, acc1)

\* ArrayType._parse
ArrayType_parse(h, node, value, ctx, g) ==
    IF ~IsArray(value)
    THEN Ret(createError(ctx, [NoOptions EXCEPT !.code = "invalid_type",
                !.expected = Str("array"), !.received = ReceivedType(value)], g), g)
    ELSE IF node.exactLength # Undefined /\ Len(value.arr) # node.exactLength.num
    THEN Ret(createError(ctx, [NoOptions EXCEPT !.code = "too_small",
                !.minimum = node.exactLength, !.inclusive = Bool(TRUE),
                !.expected = Str("array"), !.message = node.lengthMessage], g), g)
    ELSE IF node.minLength # Undefined /\ Len(value.arr) < node.minLength.num
    THEN Ret(createError(ctx, [NoOptions EXCEPT !.code = "too_small",
                !.minimum = node.minLength, !.inclusive = Bool(TRUE),
                !.expected = Str("array"), !.message = node.minMessage], g), g)
    ELSE IF node.maxLength # Undefined /\ Len(value.arr) > node.maxLength.num
    THEN Ret(createError(ctx, [NoOptions EXCEPT !.code = "too_big",
                !.maximum = node.maxLength, !.inclusive = Bool(TRUE),
                !.expected = Str("array"), !.message = node.maxMessage], g), g)
    ELSE LET acc == ArrayElementLoop(h, node, 0, value.arr, ctx,
                                     [result |-> <<>>, errors |-> <<>>, g |-> g])
         IN  IF IsRaised(acc) THEN acc
             ELSE IF Len(acc.errors) > 0
             THEN Ret(Failure(mergeErrors(acc.errors)), acc.g)
             ELSE Ret(Success(Arr(acc.result)), acc.g)

\* the candidate loop surfacing the last candidate's own failure
UnionOptionLoop_LastError(h, options, i, value, ctx, g) ==
    IF i > Len(options)
    THEN Ret(createError(ctx, [NoOptions EXCEPT !.code = "invalid_union"], g), g)
    ELSE LET r == parse(h, options[i], value, ctx, g) IN
         IF IsRaised(r) \/ r.result.success \/ i = Len(options) THEN r
         ELSE UnionOptionLoop_LastError(h, options, i + 1, value, ctx, r.g)

\* for (const option of this.options): the first success is returned
UnionOptionLoop(h, options, i, value, ctx, g) ==
    IF i > Len(options)
    THEN Ret(createError(ctx, [NoOptions EXCEPT !.code = "invalid_union"], g), g)
    ELSE LET r == parse(h, options[i], value, ctx, g) IN
         IF IsRaised(r) \/ r.result.success THEN r
         ELSE UnionOptionLoop(h, options, i + 1, value, ctx, r.g)

\* UnionType._parse
UnionType_parse(h, node, value, ctx, g) ==
    UnionOptionLoop(h, node.options, 1, value, ctx, g)

parse(h, ref, value, ctx, g) ==
    LET node == h[ref] IN
    CASE node.kind = "string" -> StringType_parse(node, value, ctx, g)
      [] node.kind = "number" -> NumberType_parse(node, value, ctx, g)
      [] node.kind = "boolean" -> BooleanType_parse(node, value, ctx, g)
      [] node.kind = "coerce.string" -> CoercedStringType_parse(value, ctx, g)
      [] node.kind = "coerce.number" -> CoercedNumberType_parse(value, ctx, g)
      [] node.kind = "coerce.boolean" -> CoercedBooleanType_parse(value, ctx, g)
      [] node.kind = "literal" -> LiteralType_parse(node, value, ctx, g)
      [] node.kind = "enum" -> EnumType_parse(node, value, ctx, g)
      [] node.kind = "optional" -> OptionalType_parse(h, node, value, ctx, g)
      [] node.kind = "nullable" -> NullableType_parse(h, node, value, ctx, g)
      [] node.kind = "nullish" -> NullishType_parse(h, node, value, ctx, g)
      [] node.kind = "default" -> DefaultType_parse(h, node, value, ctx, g)
      [] node.kind = "transform" -> TransformType_parse(h, node, value, ctx, g)
      [] node.kind = "required" -> RequiredWrapper_parse(h, node, value, ctx, g)
      [] node.kind = "object" -> ObjectType_parse(h, node, value, ctx, g)
      [] node.kind = "array" -> ArrayType_parse(h, node, value, ctx, g)
      [] node.kind = "union" -> UnionType_parse(h, node, value, ctx, g)

\* BaseType.safeParse: a fresh context with the empty path; the call of
\* _parse is not guarded, so what it raises leaves safeParse
safeParse(h, ref, value, options, g) ==
    LET ctx == [path |-> <<>>, errorMap |-> options.errorMap]
    IN  parse(h, ref, value, ctx, g)

(***************************************************************************)
(* Validator instances as the constructors leave them.                     *)
(***************************************************************************)
\* new StringType(): { customValidators: [], customMessages: {}, ...options }
NewStringType ==
    [kind |-> "string",
     options |-> [minLength |-> Undefined, maxLength |-> Undefined,
                  pattern |-> Undefined, format |-> Undefined,
                  customValidators |-> <<>>,
                  customMessages |-> [min |-> Undefined, max |-> Undefined,
                                      pattern |-> Undefined]]]

\* new NumberType(): { customMessages: {}, ...options }
NewNumberType ==
    [kind |-> "number",
     options |-> [isInt |-> Undefined, minimum |-> Undefined, maximum |-> Undefined,
                  customMessages |-> [int |-> Undefined, min |-> Undefined,
                                      max |-> Undefined]]]

NewBooleanType == [kind |-> "boolean"]
\* s.coerce.string(), s.coerce.number(), s.coerce.boolean()
NewCoercedStringType == [kind |-> "coerce.string"]
NewCoercedNumberType == [kind |-> "coerce.number"]
NewCoercedBooleanType == [kind |-> "coerce.boolean"]
NewLiteralType(value) == [kind |-> "literal", value |-> value]
NewEnumType(options) == [kind |-> "enum", options |-> options]

\* new ObjectType(shape, unknownKeys = 'strip'); a shape is held as its
\* fields in the order the caller wrote them
NewObjectType(shape, unknownKeys) ==
    [kind |-> "object", shape |-> shape, unknownKeys |-> unknownKeys]

Field(key, schema) == [key |-> key, schema |-> schema]

\* new ArrayType(element)
NewArrayType(element) ==
    [kind |-> "array", element |-> element,
     minLength |-> Undefined, maxLength |-> Undefined, exactLength |-> Undefined,
     minMessage |-> Undefined, maxMessage |-> Undefined, lengthMessage |-> Undefined]

NewUnionType(options) == [kind |-> "union", options |-> options]
NewOptionalType(innerType) == [kind |-> "optional", innerType |-> innerType]
NewNullableType(innerType) == [kind |-> "nullable", innerType |-> innerType]
NewNullishType(innerType) == [kind |-> "nullish", innerType |-> innerType]
NewDefaultType(innerType, defaultValue) ==
    [kind |-> "default", innerType |-> innerType, defaultValue |-> defaultValue]
NewTransformType(innerType, transformFn) ==
    [kind |-> "transform", innerType |-> innerType, transformFn |-> transformFn]

(***************************************************************************)
(* The fluent methods of StringType.  Each takes the heap and the receiver *)
(* and returns the heap it leaves and the reference it returns.            *)
(***************************************************************************)
\* `new`: the instance gets the next free reference
Alloc(h, node) == [h |-> Append(h, node), ref |-> Len(h) + 1]

\* `const clone = this`: no new instance
StringType_clone_Alias(h, this) == [h |-> h, ref |-> this]

\* StringType._clone
StringType_clone(h, this) ==
    Alloc(h, [kind |-> "string",
              options |-> [minLength |-> h[this].options.minLength,
                           maxLength |-> h[this].options.maxLength,
                           pattern |-> h[this].options.pattern,
                           format |-> h[this].options.format,
                           customValidators |-> h[this].options.customValidators,
                           customMessages |-> h[this].options.customMessages]])

\* `opts` left out, and { message }
NoMessage == [message |-> Undefined]
MessageOptions == {NoMessage, [message |-> Str("Too short")]}

\* StringType.min
StringType_min(h, this, length, opts) ==
    LET c == StringType_clone(h, this)
        h1 == [c.h EXCEPT ![c.ref].options.minLength = Num(length)]
    IN  [h |-> IF Truthy(opts.message)
               THEN [h1 EXCEPT ![c.ref].options.customMessages.min = opts.message]
               ELSE h1,
         ref |-> c.ref]

\* StringType.max
StringType_max(h, this, length, opts) ==
    LET c == StringType_clone(h, this)
        h1 == [c.h EXCEPT ![c.ref].options.maxLength = Num(length)]
    IN  [h |-> IF Truthy(opts.message)
               THEN [h1 EXCEPT ![c.ref].options.customMessages.max = opts.message]
               ELSE h1,
         ref |-> c.ref]

\* StringType.length: this.min(length, opts).max(length, opts)
StringType_length(h, this, length, opts) ==
    LET a == StringType_min(h, this, length, opts)
    IN  StringType_max(a.h, a.ref, length, opts)

\* StringType.pattern
StringType_pattern(h, this, regex, opts) ==
    LET c == StringType_clone(h, this)
        h1 == [c.h EXCEPT ![c.ref].options.pattern = regex]
    IN  [h |-> IF Truthy(opts.message)
               THEN [h1 EXCEPT ![c.ref].options.customMessages.pattern = opts.message]
               ELSE h1,
         ref |-> c.ref]

\* StringType.email / uuid / date / datetime: the preset pattern, then the
\* format label written on the clone
StringType_format(h, this, format, opts) ==
    LET c == StringType_pattern(h, this, RegExp(format), opts)
    IN  [h |-> [c.h EXCEPT ![c.ref].options.format = Str(format)], ref |-> c.ref]

\* StringType.nonempty
StringType_nonempty(h, this, opts) == StringType_min(h, this, 1, opts)

\* StringType.refine
StringType_refine(h, this, validate, opts) ==
    LET c == StringType_clone(h, this)
    IN  [h |-> [c.h EXCEPT ![c.ref].options.customValidators =
                    Append(@, [validate |-> validate, message |-> opts.message])],
         ref |-> c.ref]

\* StringType.cpf
StringType_cpf(h, this, opts) ==
    LET c == StringType_clone(h, this)
    IN  [h |-> [c.h EXCEPT ![c.ref].options.format = Str("cpf"),
                           ![c.ref].options.customValidators =
                    Append(@, [validate |-> "isValidCPF",
                               message |-> IF opts.message \in {Undefined, Null}
                                           THEN Str("Invalid CPF") ELSE opts.message])],
         ref |-> c.ref]

\* StringType.cnpj
StringType_cnpj(h, this, opts) ==
    LET c == StringType_clone(h, this)
    IN  [h |-> [c.h EXCEPT ![c.ref].options.format = Str("cnpj"),
                           ![c.ref].options.customValidators =
                    Append(@, [validate |-> "isValidCNPJ",
                               message |-> IF opts.message \in {Undefined, Null}
                                           THEN Str("Invalid CNPJ") ELSE opts.message])],
         ref |-> c.ref]

\* StringType.cep
StringType_cep(h, this, opts) ==
    LET c == StringType_clone(h, this)
    IN  [h |-> [c.h EXCEPT ![c.ref].options.format = Str("cep"),
                           ![c.ref].options.customValidators =
                    Append(@, [validate |-> "isValidCEP",
                               message |-> IF opts.message \in {Undefined, Null}
                                           THEN Str("Invalid CEP") ELSE opts.message])],
         ref |-> c.ref]

(***************************************************************************)
(* The fluent methods of NumberType and ArrayType and the modifiers of     *)
(* BaseType, in the same form.                                             *)
(***************************************************************************)
\* NumberType._clone
NumberType_clone(h, this) ==
    Alloc(h, [kind |-> "number",
              options |-> [isInt |-> h[this].options.isInt,
                           minimum |-> h[this].options.minimum,
                           maximum |-> h[this].options.maximum,
                           customMessages |-> h[this].options.customMessages]])

\* NumberType.int
NumberType_int(h, this, opts) ==
    LET c == NumberType_clone(h, this)
        h1 == [c.h EXCEPT ![c.ref].options.isInt = Bool(TRUE)]
    IN  [h |-> IF Truthy(opts.message)
               THEN [h1 EXCEPT ![c.ref].options.customMessages.int = opts.message]
               ELSE h1,
         ref |-> c.ref]

\* NumberType.min
NumberType_min(h, this, value, opts) ==
    LET c == NumberType_clone(h, this)
        h1 == [c.h EXCEPT ![c.ref].options.minimum = value]
    IN  [h |-> IF Truthy(opts.message)
               THEN [h1 EXCEPT ![c.ref].options.customMessages.min = opts.message]
               ELSE h1,
         ref |-> c.ref]

\* NumberType.max
NumberType_max(h, this, value, opts) ==
    LET c == NumberType_clone(h, this)
        h1 == [c.h EXCEPT ![c.ref].options.maximum = value]
    IN  [h |-> IF Truthy(opts.message)
               THEN [h1 EXCEPT ![c.ref].options.customMessages.max = opts.message]
               ELSE h1,
         ref |-> c.ref]

\* positive() with `clone.options.minimum = 0`: the bound includes 0
NumberType_positive_Zero(h, this, opts) == NumberType_min(h, this, Num(0), opts)

\* NumberType.positive: the bound is Number.MIN_VALUE
NumberType_positive(h, this, opts) ==
    LET c == NumberType_clone(h, this)
        h1 == [c.h EXCEPT ![c.ref].options.minimum = MIN_VALUE]
    IN  [h |-> IF Truthy(opts.message)
               THEN [h1 EXCEPT ![c.ref].options.customMessages.min = opts.message]
               ELSE h1,
         ref |-> c.ref]

\* NumberType.negative: the bound is -Number.MIN_VALUE
NumberType_negative(h, this, opts) ==
    LET c == NumberType_clone(h, this)
        h1 == [c.h EXCEPT ![c.ref].options.maximum = NegMIN_VALUE]
    IN  [h |-> IF Truthy(opts.message)
               THEN [h1 EXCEPT ![c.ref].options.customMessages.max = opts.message]
               ELSE h1,
         ref |-> c.ref]

\* NumberType.nonnegative
NumberType_nonnegative(h, this, opts) == NumberType_min(h, this, Num(0), opts)

\* ArrayType.min: new ArrayType(this.element, { minLength: length, ... })
ArrayType_min(h, this, length, opts) ==
    Alloc(h, [h[this] EXCEPT !.minLength = Num(length), !.minMessage = opts.message])

\* ArrayType.max
ArrayType_max(h, this, length, opts) ==
    Alloc(h, [h[this] EXCEPT !.maxLength = Num(length), !.maxMessage = opts.message])

\* ArrayType.length
ArrayType_length(h, this, length, opts) ==
    Alloc(h, [h[this] EXCEPT !.exactLength = Num(length),
                             !.lengthMessage = opts.message])

\* ArrayType.nonempty
ArrayType_nonempty(h, this, opts) == ArrayType_min(h, this, 1, opts)

\* BaseType.optional
BaseType_optional(h, this) == Alloc(h, NewOptionalType(this))

\* BaseType.nullable
BaseType_nullable(h, this) == Alloc(h, NewNullableType(this))

\* BaseType.nullish
BaseType_nullish(h, this) == Alloc(h, NewNullishType(this))

\* BaseType.default
BaseType_default(h, this, defaultValue) ==
    Alloc(h, NewDefaultType(this, defaultValue))

\* BaseType.transform
BaseType_transform(h, this, fn) == Alloc(h, NewTransformType(this, fn))

(***************************************************************************)
(* The derivation methods of ObjectType.  A shape is an object of its own: *)
(* an object validator holds a reference to it (shapeRef) beside what it   *)
(* contains (shape), so that two validators holding the same shape object  *)
(* can be told from two validators holding equal shapes.                   *)
(***************************************************************************)
\* the references of the shape objects the instances of the heap hold
ShapeRefs(h) == {h[r].shapeRef : r \in {x \in DOMAIN h : h[x].kind = "object"}}

\* an object literal or `{ ...spread }`: a shape object that did not exist
NewShapeRef(h) ==
    IF ShapeRefs(h) = {} THEN 1
    ELSE 1 + (CHOOSE m \in ShapeRefs(h) : \A x \in ShapeRefs(h) : x <= m)

\* new ObjectType(shape, unknownKeys), shape being the object shapeRef names
ObjectType_new(h, shapeRef, shape, unknownKeys) ==
    Alloc(h, [kind |-> "object", shape |-> shape, unknownKeys |-> unknownKeys,
              shapeRef |-> shapeRef])

\* shape[key] = schema: a key that exists keeps its place
ShapeSet(shape, key, schema) ==
    IF \E i \in 1..Len(shape) : shape[i].key = key
    THEN [i \in 1..Len(shape) |->
            IF shape[i].key = key THEN Field(key, schema) ELSE shape[i]]
    ELSE ShapeEntries(Append(shape, Field(key, schema)))

\* delete shape[key]
ShapeDelete(shape, key) == SelectSeq(shape, LAMBDA f : f.key # key)

\* shape[key]
ShapeGet(shape, key) ==
    shape[CHOOSE i \in 1..Len(shape) : shape[i].key = key].schema

\* ObjectType.strict
ObjectType_strict(h, this) ==
    ObjectType_new(h, h[this].shapeRef, h[this].shape, "strict")

\* ObjectType.passthrough
ObjectType_passthrough(h, this) ==
    ObjectType_new(h, h[this].shapeRef, h[this].shape, "passthrough")

\* ObjectType.strip
ObjectType_strip(h, this) ==
    ObjectType_new(h, h[this].shapeRef, h[this].shape, "strip")

\* { ...shape, ...additional }
RECURSIVE Spread(_, _)
Spread(shape, additional) ==
    IF Len(additional) = 0 THEN shape
    ELSE Spread(ShapeSet(shape, additional[1].key, additional[1].schema),
                Tail(additional))

\* ObjectType.extend
ObjectType_extend(h, this, additional) ==
    ObjectType_new(h, NewShapeRef(h),
                   Spread(ShapeEntries(h[this].shape), ShapeEntries(additional)),
                   h[this].unknownKeys)

\* for (const key of keys) picked[key] = this.shape[key]
RECURSIVE PickLoop(_, _, _)
PickLoop(shape, keys, picked) ==
    IF Len(keys) = 0 THEN picked
    ELSE PickLoop(shape, Tail(keys),
                  ShapeSet(picked, keys[1], ShapeGet(shape, keys[1])))

\* ObjectType.pick
ObjectType_pick(h, this, keys) ==
    ObjectType_new(h, NewShapeRef(h), PickLoop(h[this].shape, keys, <<>>),
                   h[this].unknownKeys)

\* for (const key of keys) delete omitted[key]
RECURSIVE OmitLoop(_, _)
OmitLoop(omitted, keys) ==
    IF Len(keys) = 0 THEN omitted
    ELSE OmitLoop(ShapeDelete(omitted, keys[1]), Tail(keys))

\* `const omitted = this.shape`: the keys are deleted from the receiver's own
\* shape object, which every instance holding it sees
ObjectType_omit_InPlace(h, this, keys) ==
    LET omitted == OmitLoop(ShapeEntries(h[this].shape), keys)
        h1 == [r \in DOMAIN h |->
                IF h[r].kind = "object" /\ h[r].shapeRef = h[this].shapeRef
                THEN [h[r] EXCEPT !.shape = omitted] ELSE h[r]]
    IN  ObjectType_new(h1, h[this].shapeRef, omitted, h[this].unknownKeys)

\* ObjectType.omit
ObjectType_omit(h, this, keys) ==
    ObjectType_new(h, NewShapeRef(h), OmitLoop(ShapeEntries(h[this].shape), keys),
                   h[this].unknownKeys)

\* the loop of partial(): acc is the heap and the shape built so far
RECURSIVE PartialLoop(_, _, _)
PartialLoop(shape, i, acc) ==
    IF i > Len(shape) THEN acc
    ELSE LET o == BaseType_optional(acc.h, shape[i].schema)
         IN  PartialLoop(shape, i + 1,
                [h |-> o.h, shape |-> ShapeSet(acc.shape, shape[i].key, o.ref)])

\* partial() building the validator with the default policy:
\* `new ObjectType(partialShape)`
ObjectType_partial_DefaultPolicy(h, this) ==
    LET shapeRef == NewShapeRef(h)
        acc == PartialLoop(ShapeEntries(h[this].shape), 1, [h |-> h, shape |-> <<>>])
    IN  ObjectType_new(acc.h, shapeRef, acc.shape, "strip")

\* ObjectType.partial
ObjectType_partial(h, this) ==
    LET shapeRef == NewShapeRef(h)
        acc == PartialLoop(ShapeEntries(h[this].shape), 1, [h |-> h, shape |-> <<>>])
    IN  ObjectType_new(acc.h, shapeRef, acc.shape, h[this].unknownKeys)

\* new RequiredWrapper(innerOptional)
NewRequiredWrapper(innerOptional) ==
    [kind |-> "required", innerOptional |-> innerOptional]

\* the loop of required(): `schema instanceof OptionalType`
RECURSIVE RequiredLoop(_, _, _)
RequiredLoop(shape, i, acc) ==
    IF i > Len(shape) THEN acc
    ELSE IF acc.h[shape[i].schema].kind = "optional"
    THEN LET w == Alloc(acc.h, NewRequiredWrapper(shape[i].schema))
         IN  RequiredLoop(shape, i + 1,
                [h |-> w.h, shape |-> ShapeSet(acc.shape, shape[i].key, w.ref)])
    ELSE RequiredLoop(shape, i + 1,
                [acc EXCEPT !.shape = ShapeSet(@, shape[i].key, shape[i].schema)])

\* ObjectType.required
ObjectType_required(h, this) ==
    LET shapeRef == NewShapeRef(h)
        acc == RequiredLoop(ShapeEntries(h[this].shape), 1, [h |-> h, shape |-> <<>>])
    IN  ObjectType_new(acc.h, shapeRef, acc.shape, h[this].unknownKeys)

(***************************************************************************)
(* toJsonSchema.  A JSON Schema is a plain object: its keywords are the    *)
(* keys it has, in the order they were written.                            *)
(***************************************************************************)
\* result[key] = v
JsonSet(js, key, v) == Obj(SetProp(js.obj, key, v))

\* js[key], undefined when js has no such key
JsonGet(js, key) == GetProp(js.obj, key)

\* delete js[key]
JsonDelete(js, key) == Obj(SelectSeq(js.obj, LAMBDA e : e[1] # key))

\* if (v !== undefined) result[key] = v
JsonSetDefined(js, key, v) == IF v # Undefined THEN JsonSet(js, key, v) ELSE js

\* RegExp.prototype.source: the pattern without its flags
RegExpSource(regex) == Str(regex.re)

\* new RegExp(source): no flags; of the presets only uuid has one (i)
NewRegExp(source) ==
    RegExp(IF source.str = "uuid" THEN "uuid-case-sensitive" ELSE source.str)

\* convertStringType
convertStringType(node) ==
    Const(JsonSetDefined(
            JsonSetDefined(Obj(<<<<"type", Str("string")>>>>),
                           "minLength", node.options.minLength),
            "maxLength", node.options.maxLength),
    LAMBDA r2 :
    Const(IF Truthy(node.options.pattern)
          THEN JsonSet(r2, "pattern", RegExpSource(node.options.pattern)) ELSE r2,
    LAMBDA r3 :
    CASE node.options.format = Str("email") -> JsonSet(r3, "format", Str("email"))
      [] node.options.format = Str("uuid") -> JsonSet(r3, "format", Str("uuid"))
      [] node.options.format = Str("date") -> JsonSet(r3, "format", Str("date"))
      [] node.options.format = Str("datetime") ->
            JsonSet(r3, "format", Str("date-time"))
      [] OTHER -> r3))

\* convertNumberType
convertNumberType(node) ==
    JsonSetDefined(
        JsonSetDefined(
            Obj(<<<<"type", Str(IF Truthy(node.options.isInt) THEN "integer"
                                ELSE "number")>>>>),
            "minimum", node.options.minimum),
        "maximum", node.options.maximum)

\* convertLiteralType
convertLiteralType(node) == Obj(<<<<"const", node.value>>>>)

\* convertEnumType
convertEnumType(node) == Obj(<<<<"enum", Arr(node.options)>>>>)

\* the keywords addNullToType copies, in the order it copies them
CopiedKeywords ==
    <<"minLength", "maxLength", "pattern", "format", "minimum", "maximum",
      "enum", "const">>

RECURSIVE CopyKeywords(_, _, _)
CopyKeywords(result, innerSchema, i) ==
    IF i > Len(CopiedKeywords) THEN result
    ELSE CopyKeywords(JsonSetDefined(result, CopiedKeywords[i],
                                     JsonGet(innerSchema, CopiedKeywords[i])),
                      innerSchema, i + 1)

\* addNullToType
addNullToType(innerSchema) ==
    IF JsonGet(innerSchema, "type") # Undefined
    THEN LET type == JsonGet(innerSchema, "type")
             baseTypes == IF IsArray(type) THEN type.arr ELSE <<type>>
             newTypes == Append(baseTypes, Str("null"))
         IN  CopyKeywords(Obj(<<<<"type", Arr(newTypes)>>>>), innerSchema, 1)
    ELSE Obj(<<<<"anyOf", Arr(<<innerSchema, Obj(<<<<"type", Str("null")>>>>)>>)>>>>)

RECURSIVE convertSchema(_, _)
RECURSIVE ConvertPropertiesLoop(_, _, _, _)
RECURSIVE ConvertOptions(_, _, _)

\* for (const [key, propSchema] of Object.entries(shape))
ConvertPropertiesLoop(h, shape, i, result) ==
    IF i > Len(shape) THEN result
    ELSE Const(convertSchema(h, shape[i].schema), LAMBDA prop :
         ConvertPropertiesLoop(h, shape, i + 1,
            [properties |->
                SetProp(result.properties, shape[i].key,
                        IF h[shape[i].schema].kind = "default"
                           /\ TypeOf(h[shape[i].schema].defaultValue) # "function"
                        THEN JsonSet(prop, "default", h[shape[i].schema].defaultValue)
                        ELSE prop),
             required |->
                IF h[shape[i].schema].kind # "optional"
                   /\ h[shape[i].schema].kind # "default"
                THEN Append(result.required, Str(shape[i].key))
                ELSE result.required]))

\* convertObjectType
convertObjectType(h, node) ==
    Const(ConvertPropertiesLoop(h, ShapeEntries(node.shape), 1,
                                [properties |-> <<>>, required |-> <<>>]),
    LAMBDA acc :
    Const(Obj(<<<<"type", Str("object")>>,
                <<"properties", Obj(acc.properties)>>,
                <<"required", Arr(acc.required)>>>>),
    LAMBDA result :
    IF Len(acc.required) = 0 THEN JsonDelete(result, "required") ELSE result))

\* convertArrayType
convertArrayType(h, node) ==
    JsonSetDefined(
        JsonSetDefined(
            Obj(<<<<"type", Str("array")>>,
                  <<"items", convertSchema(h, node.element)>>>>),
            "minItems", node.minLength),
        "maxItems", node.maxLength)

\* options.map(convertSchema)
ConvertOptions(h, options, i) ==
    IF i > Len(options) THEN <<>>
    ELSE <<convertSchema(h, options[i])>> \o ConvertOptions(h, options, i + 1)

\* convertUnionType
convertUnionType(h, node) ==
    Obj(<<<<"anyOf", Arr(ConvertOptions(h, node.options, 1))>>>>)

\* convertDefaultType
convertDefaultType(h, node) ==
    Const(convertSchema(h, node.innerType), LAMBDA result :
    IF TypeOf(node.defaultValue) # "function"
    THEN JsonSet(result, "default", node.defaultValue) ELSE result)

\* convertSchema: the instanceof chain
convertSchema(h, schema) ==
    LET node == h[schema] IN
    CASE node.kind = "optional" -> convertSchema(h, node.innerType)
      [] node.kind = "nullable" -> addNullToType(convertSchema(h, node.innerType))
      [] node.kind = "nullish" -> addNullToType(convertSchema(h, node.innerType))
      [] node.kind = "default" -> convertDefaultType(h, node)
      [] node.kind = "transform" -> convertSchema(h, node.innerType)
      [] node.kind = "string" -> convertStringType(node)
      [] node.kind = "number" -> convertNumberType(node)
      [] node.kind = "boolean" -> Obj(<<<<"type", Str("boolean")>>>>)
      [] node.kind = "literal" -> convertLiteralType(node)
      [] node.kind = "enum" -> convertEnumType(node)
      [] node.kind = "object" -> convertObjectType(h, node)
      [] node.kind = "array" -> convertArrayType(h, node)
      [] node.kind = "union" -> convertUnionType(h, node)
      [] OTHER -> Obj(<<>>)

\* toJsonSchema(schema) with the default options {}
toJsonSchema(h, schema) == convertSchema(h, schema)

(***************************************************************************)
(* fromJsonSchema.  Every validator it builds, the intermediate ones of    *)
(* the fluent chains included, is allocated on the heap.                   *)
(***************************************************************************)
\* if (schema[key] !== undefined) result = result.method(schema[key])
IfDefined(r, schema, key, Method(_, _, _)) ==
    IF JsonGet(schema, key) # Undefined
    THEN Method(r.h, r.ref, JsonGet(schema, key)) ELSE r

\* convertToStringType stopping before the pattern and the format switch
convertToStringType_NoFormat(h, schema) ==
    Const(IfDefined(Alloc(h, NewStringType), schema, "minLength",
                    LAMBDA h1, this, v : StringType_min(h1, this, v.num, NoMessage)),
    LAMBDA r1 :
    IfDefined(r1, schema, "maxLength",
              LAMBDA h1, this, v : StringType_max(h1, this, v.num, NoMessage)))

\* convertToStringType
convertToStringType(h, schema) ==
    Const(IfDefined(Alloc(h, NewStringType), schema, "minLength",
                    LAMBDA h1, this, v : StringType_min(h1, this, v.num, NoMessage)),
    LAMBDA r1 :
    Const(IfDefined(r1, schema, "maxLength",
                    LAMBDA h1, this, v : StringType_max(h1, this, v.num, NoMessage)),
    LAMBDA r2 :
    Const(IfDefined(r2, schema, "pattern",
                    LAMBDA h1, this, v :
                        StringType_pattern(h1, this, NewRegExp(v), NoMessage)),
    LAMBDA r3 :
    CASE JsonGet(schema, "format") = Str("email") ->
            StringType_format(r3.h, r3.ref, "email", NoMessage)
      [] JsonGet(schema, "format") = Str("uuid") ->
            StringType_format(r3.h, r3.ref, "uuid", NoMessage)
      [] JsonGet(schema, "format") = Str("date") ->
            StringType_format(r3.h, r3.ref, "date", NoMessage)
      [] JsonGet(schema, "format") = Str("date-time") ->
            StringType_format(r3.h, r3.ref, "datetime", NoMessage)
      [] OTHER -> r3)))

\* convertToNumberType
convertToNumberType(h, schema, isInteger) ==
    Const(Alloc(h, NewNumberType), LAMBDA r0 :
    Const(IF isInteger THEN NumberType_int(r0.h, r0.ref, NoMessage) ELSE r0,
    LAMBDA r1 :
    Const(IfDefined(r1, schema, "minimum",
                    LAMBDA h1, this, v : NumberType_min(h1, this, v, NoMessage)),
    LAMBDA r2 :
    IfDefined(r2, schema, "maximum",
              LAMBDA h1, this, v : NumberType_max(h1, this, v, NoMessage)))))

RECURSIVE fromJsonSchema(_, _)
RECURSIVE FromJsonSchemas(_, _, _, _)
RECURSIVE ConvertToShapeLoop(_, _, _, _, _)
RECURSIVE HandleSingleTypes(_, _, _, _, _)

\* schemas.map(fromJsonSchema): the heap and the references so far
FromJsonSchemas(h, schemas, i, refs) ==
    IF i > Len(schemas) THEN [h |-> h, refs |-> refs]
    ELSE Const(fromJsonSchema(h, schemas[i]), LAMBDA r :
         FromJsonSchemas(r.h, schemas, i + 1, Append(refs, r.ref)))

\* the loop of convertToObjectType
ConvertToShapeLoop(h, properties, requiredFields, i, shape) ==
    IF i > Len(properties) THEN [h |-> h, shape |-> shape]
    ELSE Const(fromJsonSchema(h, properties[i][2]), LAMBDA r1 :
         Const(IF Str(properties[i][1]) \notin requiredFields
               THEN BaseType_optional(r1.h, r1.ref) ELSE r1,
         LAMBDA r2 :
         Const(IfDefined(r2, properties[i][2], "default", BaseType_default),
         LAMBDA r3 :
         ConvertToShapeLoop(r3.h, properties, requiredFields, i + 1,
                            ShapeSet(shape, properties[i][1], r3.ref)))))

\* new Set(schema.required ?? [])
RequiredFields(required) ==
    IF required \in {Undefined, Null} THEN {}
    ELSE {required.arr[i] : i \in DOMAIN required.arr}

\* convertToObjectType
convertToObjectType(h, schema) ==
    Const(IF Truthy(JsonGet(schema, "properties"))
          THEN ConvertToShapeLoop(h, Entries(JsonGet(schema, "properties").obj),
                                  RequiredFields(JsonGet(schema, "required")), 1, <<>>)
          ELSE [h |-> h, shape |-> <<>>],
    LAMBDA acc : Alloc(acc.h, NewObjectType(acc.shape, "strip")))

\* convertToArrayType
convertToArrayType(h, schema) ==
    Const(IF Truthy(JsonGet(schema, "items"))
          THEN fromJsonSchema(h, JsonGet(schema, "items"))
          ELSE Alloc(h, NewStringType),
    LAMBDA e :
    Const(IfDefined(Alloc(e.h, NewArrayType(e.ref)), schema, "minItems",
                    LAMBDA h1, this, v : ArrayType_min(h1, this, v.num, NoMessage)),
    LAMBDA r1 :
    IfDefined(r1, schema, "maxItems",
              LAMBDA h1, this, v : ArrayType_max(h1, this, v.num, NoMessage))))

\* handleSingleType
handleSingleType(h, type, jsonSchema) ==
    CASE type = Str("string") -> convertToStringType(h, jsonSchema)
      [] type = Str("number") -> convertToNumberType(h, jsonSchema, FALSE)
      [] type = Str("integer") -> convertToNumberType(h, jsonSchema, TRUE)
      [] type = Str("boolean") -> Alloc(h, NewBooleanType)
      [] type = Str("object") -> convertToObjectType(h, jsonSchema)
      [] type = Str("array") -> convertToArrayType(h, jsonSchema)
      [] type = Str("null") -> Alloc(h, NewLiteralType(Null))
      [] OTHER -> Alloc(h, NewStringType)

\* nonNullTypes.map((t) => handleSingleType(t, jsonSchema))
HandleSingleTypes(h, types, jsonSchema, i, refs) ==
    IF i > Len(types) THEN [h |-> h, refs |-> refs]
    ELSE Const(handleSingleType(h, types[i], jsonSchema), LAMBDA r :
         HandleSingleTypes(r.h, types, jsonSchema, i + 1, Append(refs, r.ref)))

\* includesNull ? innerSchema.nullable() : innerSchema
NullableIf(r, includesNull) ==
    IF includesNull THEN BaseType_nullable(r.h, r.ref) ELSE r

\* handleArrayType
handleArrayType(h, types, jsonSchema) ==
    Const(SelectSeq(types, LAMBDA t : t # Str("null")), LAMBDA nonNullTypes :
    Const(\E i \in DOMAIN types : types[i] = Str("null"), LAMBDA includesNull :
    IF Len(nonNullTypes) = 0 THEN Alloc(h, NewLiteralType(Null))
    ELSE IF Len(nonNullTypes) = 1
    THEN NullableIf(handleSingleType(h, nonNullTypes[1], jsonSchema), includesNull)
    ELSE Const(HandleSingleTypes(h, nonNullTypes, jsonSchema, 1, <<>>),
         LAMBDA schemas :
         NullableIf(Alloc(schemas.h, NewUnionType(schemas.refs)), includesNull))))

\* fromJsonSchema
fromJsonSchema(h, jsonSchema) ==
    IF JsonGet(jsonSchema, "const") # Undefined
    THEN Alloc(h, NewLiteralType(JsonGet(jsonSchema, "const")))
    ELSE IF JsonGet(jsonSchema, "enum") # Undefined
    THEN Alloc(h, NewEnumType(JsonGet(jsonSchema, "enum").arr))
    ELSE IF JsonGet(jsonSchema, "anyOf") # Undefined
    THEN Const(FromJsonSchemas(h, JsonGet(jsonSchema, "anyOf").arr, 1, <<>>),
               LAMBDA r : Alloc(r.h, NewUnionType(r.refs)))
    ELSE IF JsonGet(jsonSchema, "oneOf") # Undefined
    THEN Const(FromJsonSchemas(h, JsonGet(jsonSchema, "oneOf").arr, 1, <<>>),
               LAMBDA r : Alloc(r.h, NewUnionType(r.refs)))
    ELSE Const(JsonGet(jsonSchema, "type"), LAMBDA schemaType :
         IF schemaType = Undefined THEN Alloc(h, NewStringType)
         ELSE IF IsArray(schemaType)
         THEN handleArrayType(h, schemaType.arr, jsonSchema)
         ELSE handleSingleType(h, schemaType, jsonSchema))

(***************************************************************************)
(* The schemas defined at schema-definition time.  Entry i is the instance *)
(* with reference i.                                                       *)
(***************************************************************************)
Catalog ==
    << NewStringType,                                              \*  1 s.string()
       NewNumberType,                                              \*  2 s.number()
       NewBooleanType,                                             \*  3 s.boolean()
       NewObjectType(<<Field("a", 1), Field("b", 2)>>, "strip"),   \*  4
       NewObjectType(<<Field("a", 1), Field("b", 2)>>, "strict"),  \*  5 [4].strict()
       NewObjectType(<<Field("a", 1), Field("b", 2)>>, "passthrough"), \* 6
       NewUnionType(<<1, 2>>),                                     \*  7
       NewObjectType(<<Field("a", 1)>>, "strip"),                  \*  8
       NewArrayType(8),                                            \*  9
       NewOptionalType(1),                                         \* 10
       NewNullableType(1),                                         \* 11
       NewNullishType(1),                                          \* 12
       NewDefaultType(2, Num(5)),                                  \* 13
       NewDefaultType(2, Fn("counter")),                           \* 14
       NewObjectType(<<Field("a", 13), Field("b", 10), Field("c", 14)>>, "strip"), \* 15
       NewTransformType(1, "length"),                              \* 16
       NewTransformType(16, "double"),                             \* 17
       NewTransformType(1, "trim"),                                \* 18
       NewTransformType(18, "toUpperCase"),                        \* 19
       NewUnionType(<<5, 9>>),                                     \* 20
       NewObjectType(<<Field("a", 4), Field("b", 9)>>, "strict"),  \* 21
       NewTransformType(10, "orNone"),                             \* 22
       NewOptionalType(13),                                        \* 23
       NewNullableType(10),                                        \* 24
       NewObjectType(<<Field("c", 14), Field("a", 16)>>, "passthrough"), \* 25
       NewUnionType(<<25, 8>>),                                    \* 26
       NewObjectType(<<Field("a", 1)>>, "strict"),                 \* 27 [8].strict()
       NewObjectType(<<Field("a", 1)>>, "passthrough"),            \* 28 [8].passthrough()
       NewObjectType(<<Field("a", 13)>>, "strip"),                 \* 29
       NewObjectType(<<Field("b", 7)>>, "strip"),                  \* 30
       NewDefaultType(14, Num(5))                                  \* 31
    >>

(***************************************************************************)
(* Inputs.                                                                 *)
(***************************************************************************)
Keys == {"a", "b", "c"}

\* sequences of distinct keys: the insertion orders of an object's keys
KeySeqs ==
    {ks \in UNION {[1..n -> Keys] : n \in 0..Cardinality(Keys)} :
        \A i, j \in DOMAIN ks : i # j => ks[i] # ks[j]}

Primitives ==
    {Undefined, Null, Bool(TRUE), Num(5), Num(10), Str(""), Str("x"), Str(" hi ")}

FieldValues == {Str("x"), Num(10)}

FlatObjects ==
    UNION {{Obj([i \in 1..Len(ks) |-> <<ks[i], vs[i]>>]) :
                vs \in [1..Len(ks) -> FieldValues]} : ks \in KeySeqs}
    \cup {Obj(<<<<"a", Undefined>>>>), Obj(<<<<"c", Undefined>>>>),
          Obj(<<<<"a", Str("x")>>, <<"b", Undefined>>>>),
          Obj(<<<<"a", Null>>, <<"b", Bool(TRUE)>>>>),
          Obj(<<<<"a", Str("x")>>, <<"b", Num(10)>>, <<"c", Undefined>>>>)}

SmallObjects ==
    {Obj(<<>>), Obj(<<<<"a", Str("x")>>>>), Obj(<<<<"a", Num(10)>>>>),
     Obj(<<<<"a", Str("x")>>, <<"b", Num(10)>>>>),
     Obj(<<<<"a", Num(10)>>, <<"b", Str("x")>>>>),
     Obj(<<<<"a", Str("x")>>, <<"c", Num(10)>>>>)}

Elements == {Str("x"), Num(10), Obj(<<>>), Obj(<<<<"a", Str("x")>>>>),
             Obj(<<<<"a", Num(10)>>>>)}

Arrays == UNION {{Arr(a) : a \in [1..n -> Elements]} : n \in 0..MaxLen}

ShortArrays == UNION {{Arr(a) : a \in [1..n -> Elements]} : n \in 0..1}

NestedObjects ==
    {Obj(<<<<"a", o>>, <<"b", a>>>>) : o \in SmallObjects, a \in ShortArrays}
    \cup {Obj(<<<<"a", o>>>>) : o \in SmallObjects}
    \cup {Obj(<<<<"b", a>>, <<"c", Num(10)>>>>) : a \in ShortArrays}

Values == Primitives \cup FlatObjects \cup Arrays \cup NestedObjects

\* the `options` argument of safeParse
CallOptions == {[errorMap |-> Undefined], [errorMap |-> Fn("customMap")]}

(***************************************************************************)
(* The state machine.                                                      *)
(***************************************************************************)
Init ==
    /\ nodes = Catalog
    /\ counter = 0
    /\ currentErrorMap = "defaultErrorMap"
    /\ given \in [value : Values, options : CallOptions]
    /\ last = [op |-> "none"]

Globals == [counter |-> counter, log |-> <<>>, errorMap |-> currentErrorMap]

\* the record of a safeParse call: the result it returned, or the exception
\* that left it
SafeParseCall(ref, r) ==
    IF IsRaised(r)
    THEN [op |-> "safeParse", schema |-> ref, before |-> counter,
          raised |-> r.raised, log |-> r.g.log]
    ELSE [op |-> "safeParse", schema |-> ref, before |-> counter,
          result |-> r.result, log |-> r.g.log]

\* schema.safeParse(value, options)
SafeParse(ref) ==
    LET r == safeParse(nodes, ref, given.value, given.options, Globals) IN
    /\ r.g.counter <= MaxCounter
    /\ counter' = r.g.counter
    /\ last' = SafeParseCall(ref, r)
    /\ UNCHANGED <<nodes, currentErrorMap, given>>

Next == \E ref \in DOMAIN nodes : SafeParse(ref)

Spec == Init /\ [][Next]_vars

TypeOK ==
    /\ counter \in 0..MaxCounter
    /\ last.op \in {"none", "safeParse"}

(***************************************************************************)
(* Vocabulary of the properties.                                           *)
(***************************************************************************)
Returned == last.op = "safeParse"
Schema == nodes[last.schema]
Issues == last.result.error.issues

\* the context and callback state the top-level call started from
RootCtx == [path |-> <<>>, errorMap |-> given.options.errorMap]
Before == [counter |-> last.before, log |-> <<>>, errorMap |-> currentErrorMap]

SeqSet(s) == {s[i] : i \in DOMAIN s}
Least(S) == CHOOSE x \in S : \A y \in S : x <= y

\* what field i of an object validator returns, taken alone, for the
\* corresponding property of the given object
FieldOutcome(node, i) ==
    parse(nodes, node.shape[i].schema, GetProp(given.value.obj, node.shape[i].key),
          [RootCtx EXCEPT !.path = <<KeySeg(node.shape[i].key)>>], Before).result

FailingFields(node) ==
    {i \in 1..Len(node.shape) : ~FieldOutcome(node, i).success}

FieldIssues(node) ==
    UNION {SeqSet(FieldOutcome(node, i).error.issues) : i \in FailingFields(node)}

ShapeKeys(node) == {node.shape[i].key : i \in 1..Len(node.shape)}
ExtraKeys(node) == SeqSet(ObjectKeys(given.value.obj)) \ ShapeKeys(node)

ObjectCall == Returned /\ Schema.kind = "object" /\ given.value.t = "object"

(***************************************************************************)
(* C1. When two or more fields of an object validator fail on the given    *)
(* object, safeParse fails and its issue list holds every issue of every   *)
(* failing field.                                                          *)
(***************************************************************************)
C1_AllFailingFieldsReported ==
    (ObjectCall /\ Cardinality(FailingFields(Schema)) >= 2)
        => /\ ~last.result.success
           /\ FieldIssues(Schema) \subseteq SeqSet(Issues)

(***************************************************************************)
(* C2. Under the strict policy, an input with a failing shape field and a  *)
(* key outside the shape yields an error that holds the field issues and   *)
(* the unrecognized-keys issue.                                            *)
(***************************************************************************)
C2_StrictKeepsFieldAndKeyIssues ==
    (ObjectCall /\ Schema.unknownKeys = "strict"
        /\ FailingFields(Schema) # {} /\ ExtraKeys(Schema) # {})
        => /\ ~last.result.success
           /\ FieldIssues(Schema) \subseteq SeqSet(Issues)
           /\ \E m \in DOMAIN Issues : Issues[m].code = "unrecognized_keys"

(***************************************************************************)
(* C3. All shape fields valid, extra keys present: strip succeeds with no  *)
(* key outside the shape; strict fails with exactly one unrecognized_keys  *)
(* issue naming all the extra keys; passthrough succeeds with the          *)
(* validated fields plus every unknown key copied unchanged.               *)
(***************************************************************************)
\* the keys the validated fields contribute, with their parsed values
ValidatedKeys(node) ==
    {node.shape[i].key : i \in {j \in 1..Len(node.shape) :
                                    FieldOutcome(node, j).data # Undefined}}

ValidatedFieldsKept(node, out) ==
    \A i \in 1..Len(node.shape) :
        FieldOutcome(node, i).data # Undefined
            => GetProp(out, node.shape[i].key) = FieldOutcome(node, i).data

C3_UnknownKeyPolicies ==
    (ObjectCall /\ FailingFields(Schema) = {} /\ ExtraKeys(Schema) # {})
        => CASE Schema.unknownKeys = "strip" ->
                    /\ last.result.success
                    /\ SeqSet(ObjectKeys(last.result.data.obj)) = ValidatedKeys(Schema)
                    /\ ValidatedFieldsKept(Schema, last.result.data.obj)
             [] Schema.unknownKeys = "strict" ->
                    /\ ~last.result.success
                    /\ Len(Issues) = 1
                    /\ Issues[1].code = "unrecognized_keys"
                    /\ Issues[1].path = <<>>
                    /\ given.options.errorMap = Undefined
                        => Issues[1].message = "Unrecognized keys: " \o
                            JoinComma(SelectSeq(ObjectKeys(given.value.obj),
                                        LAMBDA k : k \in ExtraKeys(Schema)))
             [] Schema.unknownKeys = "passthrough" ->
                    /\ last.result.success
                    /\ SeqSet(ObjectKeys(last.result.data.obj))
                            = ValidatedKeys(Schema) \cup ExtraKeys(Schema)
                    /\ ValidatedFieldsKept(Schema, last.result.data.obj)
                    /\ \A k \in ExtraKeys(Schema) :
                            GetProp(last.result.data.obj, k) = GetProp(given.value.obj, k)

C3_Witness ==
    /\ Returned /\ last.schema = 28
    /\ given.value = Obj(<<<<"a", Str("x")>>, <<"b", Str("x")>>>>)
    /\ last.result = Success(given.value)

(***************************************************************************)
(* C4. A union returns the success of its lowest-index succeeding          *)
(* candidate, each candidate being given the original input and the        *)
(* union's context; if none succeeds it fails with exactly one issue,      *)
(* invalid_union at the union's own path, and no candidate's issue.        *)
(***************************************************************************)
CandidateOutcome(node, i, value, ctx) ==
    parse(nodes, node.options[i], value, ctx, Before).result

Winners(node, value, ctx) ==
    {i \in 1..Len(node.options) : CandidateOutcome(node, i, value, ctx).success}

OnlyInvalidUnionAt(issues, path) ==
    /\ Len(issues) = 1
    /\ issues[1].code = "invalid_union"
    /\ issues[1].path = path

\* the fields of an object validator that are unions no candidate of which
\* accepts the field's value
LostUnionFields(node) ==
    {i \in 1..Len(node.shape) :
        /\ nodes[node.shape[i].schema].kind = "union"
        /\ Winners(nodes[node.shape[i].schema],
                   GetProp(given.value.obj, node.shape[i].key),
                   [RootCtx EXCEPT !.path = <<KeySeg(node.shape[i].key)>>]) = {}}

C4_UnionFirstSuccessOrOneIssue ==
    /\ (Returned /\ Schema.kind = "union")
        => IF Winners(Schema, given.value, RootCtx) # {}
           THEN last.result =
                    CandidateOutcome(Schema, Least(Winners(Schema, given.value, RootCtx)),
                                     given.value, RootCtx)
           ELSE /\ ~last.result.success
                /\ OnlyInvalidUnionAt(Issues, <<>>)
    /\ (ObjectCall /\ Len(Schema.shape) = 1 /\ LostUnionFields(Schema) = {1})
        => /\ ~last.result.success
           /\ OnlyInvalidUnionAt(Issues, <<KeySeg(Schema.shape[1].key)>>)

C4_Witness ==
    /\ Returned /\ last.schema = 7 /\ given.value = Bool(TRUE)
    /\ ~last.result.success
    /\ Len(Issues) = 1 /\ Issues[1].code = "invalid_union"

(***************************************************************************)
(* C5. The path of every issue is the sequence of keys and indices that    *)
(* leads from the root input to the value the issue complains about, at    *)
(* any nesting; array(object({a: string})) on [{a: 'x'}, {a: 10}] yields   *)
(* exactly one issue, with path [1, 'a'].                                  *)
(***************************************************************************)
NoValue == [t |-> "none"]

\* the value a path leads to inside v, NoValue when the path leaves v
RECURSIVE ValueAt(_, _)
ValueAt(v, path) ==
    IF path = <<>> THEN v
    ELSE LET seg == Head(path) IN
         IF "key" \in DOMAIN seg
         THEN IF v.t = "object" THEN ValueAt(GetProp(v.obj, seg.key), Tail(path))
              ELSE NoValue
         ELSE IF v.t = "array" /\ seg.idx \in 0..(Len(v.arr) - 1)
              THEN ValueAt(v.arr[seg.idx + 1], Tail(path))
              ELSE NoValue

\* issue is a complaint that v gives rise to
ComplainsAbout(issue, v) ==
    /\ v # NoValue
    /\ issue.code = "invalid_type" =>
        CASE issue.expected = Str("string") ->
                TypeOf(v) # "string" /\ issue.received = ReceivedType(v)
          [] issue.expected = Str("number") ->
                TypeOf(v) # "number" /\ issue.received = ReceivedType(v)
          [] issue.expected = Str("boolean") ->
                TypeOf(v) # "boolean" /\ issue.received = ReceivedType(v)
          [] issue.expected = Str("array") ->
                v.t # "array" /\ issue.received = ReceivedType(v)
          [] issue.expected = Str("object") ->
                v.t # "object"
                /\ issue.received = Str(IF v.t \in {"null", "array"} THEN v.t ELSE TypeOf(v))
          [] OTHER -> TRUE
    /\ issue.code = "unrecognized_keys" => v.t = "object"

AnExample == Arr(<<Obj(<<<<"a", Str("x")>>>>), Obj(<<<<"a", Num(10)>>>>)>>)

C5_IssuePathsLocateFailedValue ==
    (Returned /\ ~last.result.success)
        => /\ \A m \in DOMAIN Issues :
                ComplainsAbout(Issues[m], ValueAt(given.value, Issues[m].path))
           /\ (last.schema = 9 /\ given.value = AnExample)
                => /\ Len(Issues) = 1
                   /\ Issues[1].path = <<IdxSeg(1), KeySeg("a")>>

C5_Witness ==
    /\ Returned /\ last.schema = 21 /\ ~last.result.success
    /\ \E m \in DOMAIN Issues :
            Issues[m].path = <<KeySeg("b"), IdxSeg(0), KeySeg("a")>>

(***************************************************************************)
(* C6. A default-wrapped validator given undefined succeeds without        *)
(* consulting the inner validator: with the fixed default, or with the     *)
(* result of exactly one fresh call of the generator (the counter          *)
(* generator returns one more on each successive parse).  Any other input, *)
(* null included, calls no generator and gets the inner validator's result.*)
(***************************************************************************)
GeneratorCalls(log) == SelectSeq(log, LAMBDA c : c.fn = "counter")

C6_DefaultOnAbsentOnly ==
    (Returned /\ Schema.kind = "default")
        => IF given.value = Undefined
           THEN IF TypeOf(Schema.defaultValue) = "function"
                THEN /\ last.result = Success(Num(last.before + 1))
                     /\ counter = last.before + 1
                     /\ last.log = <<[fn |-> "counter", args |-> <<>>]>>
                ELSE /\ last.result = Success(Schema.defaultValue)
                     /\ counter = last.before
                     /\ last.log = <<>>
           ELSE /\ last.result =
                    parse(nodes, Schema.innerType, given.value, RootCtx, Before).result
                /\ counter = last.before
                /\ GeneratorCalls(last.log) = <<>>

\* the second of two successive absent-input parses returned 2
C6_Witness ==
    /\ Returned /\ last.schema = 14 /\ given.value = Undefined
    /\ last.before = 1 /\ last.result = Success(Num(2))

(***************************************************************************)
(* C7. In the output of a successful object parse a shape key is present   *)
(* exactly when the field's parsed value is not undefined:                 *)
(* object({a: number().default(5)}) gives {a: 5} on {} and {a: 10} on      *)
(* {a: 10}, and a missing optional field is left out.                      *)
(***************************************************************************)
C7_OutputKeysAreDefinedFields ==
    (ObjectCall /\ last.result.success)
        => /\ \A i \in 1..Len(Schema.shape) :
                HasKey(last.result.data.obj, Schema.shape[i].key)
                    <=> FieldOutcome(Schema, i).data # Undefined
           /\ \A i \in 1..Len(last.result.data.obj) :
                last.result.data.obj[i][1] \in ShapeKeys(Schema)
                    => last.result.data.obj[i][2] # Undefined
           /\ (last.schema = 29 /\ given.value = Obj(<<>>))
                => last.result.data = Obj(<<<<"a", Num(5)>>>>)
           /\ (last.schema = 29 /\ given.value = Obj(<<<<"a", Num(10)>>>>))
                => last.result.data = Obj(<<<<"a", Num(10)>>>>)

\* the optional field b is missing and left out; the defaults are filled in
C7_Witness ==
    /\ Returned /\ last.schema = 15 /\ given.value = Obj(<<>>)
    /\ last.result.success
    /\ ObjectKeys(last.result.data.obj) = <<"a", "c">>

(***************************************************************************)
(* C8. optional succeeds with undefined on undefined, nullable with null   *)
(* on null, nullish with the same marker on either; on every other input   *)
(* the wrapper returns the inner validator's result for the same input and *)
(* context, a failure with the same issues.                                *)
(***************************************************************************)
ShortCircuits(kind) ==
    CASE kind = "optional" -> {Undefined}
      [] kind = "nullable" -> {Null}
      [] kind = "nullish" -> {Undefined, Null}

C8_WrappersDelegateUnchanged ==
    (Returned /\ Schema.kind \in {"optional", "nullable", "nullish"})
        => IF given.value \in ShortCircuits(Schema.kind)
           THEN last.result = Success(given.value) /\ last.log = <<>>
           ELSE LET r == parse(nodes, Schema.innerType, given.value, RootCtx, Before)
                IN  /\ last.result = r.result
                    /\ last.log = r.g.log
                    /\ (nodes[Schema.innerType].kind = "string"
                            /\ given.value \in {Undefined, Null})
                        => ~last.result.success

\* optional(string()) rejects null with the string validator's own issue
C8_Witness ==
    /\ Returned /\ last.schema = 10 /\ given.value = Null
    /\ ~last.result.success
    /\ Len(Issues) = 1 /\ Issues[1].code = "invalid_type"
    /\ Issues[1].received = Str("null")

(***************************************************************************)
(* C9. A transform-wrapped validator parses with the inner validator       *)
(* first; on success it calls the mapping function exactly once, with the  *)
(* inner output, and returns the mapped value; on failure it does not call *)
(* it and returns the inner failure; chained transforms apply in chaining  *)
(* order.                                                                  *)
(***************************************************************************)
C9_TransformAfterInnerSuccess ==
    (Returned /\ Schema.kind = "transform")
        => LET r == parse(nodes, Schema.innerType, given.value, RootCtx, Before)
           IN  IF r.result.success
               THEN /\ last.result =
                        Success(ApplyTransform(Schema.transformFn, r.result.data))
                    /\ last.log = Append(r.g.log, [fn |-> Schema.transformFn,
                                                   args |-> <<r.result.data>>])
               ELSE /\ last.result = r.result
                    /\ last.log = r.g.log

\* string().transform(trim).transform(toUpperCase) on ' hi ': trim, then
\* toUpperCase
C9_Witness ==
    /\ Returned /\ last.schema = 19 /\ given.value = Str(" hi ")
    /\ last.result = Success(Str("HI"))
    /\ last.log = <<[fn |-> "trim", args |-> <<Str(" hi ")>>],
                    [fn |-> "toUpperCase", args |-> <<Str("hi")>>]>>

(***************************************************************************)
(* Deriving string validators: the state machine of the fluent calls.      *)
(* It starts from s.string() alone; every call is made on an instance of   *)
(* the heap and its result joins the heap.                                 *)
(***************************************************************************)
StringInputs ==
    {Str(""), Str("1.0.0"), Num(10)}

InitFluent ==
    /\ nodes = <<NewStringType>>
    /\ counter = 0
    /\ currentErrorMap = "defaultErrorMap"
    /\ given \in [value : StringInputs, options : {[errorMap |-> Undefined]}]
    /\ last = [op |-> "none"]

\* the call returned r: the heap is what it left, `last` what was called
FluentCall(op, this, arg, r) ==
    /\ nodes[this].kind = "string"
    /\ Len(r.h) <= MaxNodes
    /\ nodes' = r.h
    /\ last' = [op |-> op, receiver |-> this, arg |-> arg, ret |-> r.ref]
    /\ UNCHANGED <<counter, currentErrorMap, given>>

StringMin(this, length, opts) ==
    FluentCall("min", this, Num(length), StringType_min(nodes, this, length, opts))

StringMax(this, length, opts) ==
    FluentCall("max", this, Num(length), StringType_max(nodes, this, length, opts))

StringLength(this, length, opts) ==
    FluentCall("length", this, Num(length), StringType_length(nodes, this, length, opts))

StringPattern(this, regex, opts) ==
    FluentCall("pattern", this, regex, StringType_pattern(nodes, this, regex, opts))

StringEmail(this, opts) ==
    FluentCall("email", this, Undefined, StringType_format(nodes, this, "email", opts))

StringUuid(this, opts) ==
    FluentCall("uuid", this, Undefined, StringType_format(nodes, this, "uuid", opts))

StringDate(this, opts) ==
    FluentCall("date", this, Undefined, StringType_format(nodes, this, "date", opts))

StringDatetime(this, opts) ==
    FluentCall("datetime", this, Undefined,
               StringType_format(nodes, this, "datetime", opts))

StringNonempty(this, opts) ==
    FluentCall("nonempty", this, Undefined, StringType_nonempty(nodes, this, opts))

StringRefine(this, validate, opts) ==
    FluentCall("refine", this, Str(validate),
               StringType_refine(nodes, this, validate, opts))

StringCpf(this, opts) ==
    FluentCall("cpf", this, Undefined, StringType_cpf(nodes, this, opts))

StringCnpj(this, opts) ==
    FluentCall("cnpj", this, Undefined, StringType_cnpj(nodes, this, opts))

StringCep(this, opts) ==
    FluentCall("cep", this, Undefined, StringType_cep(nodes, this, opts))

NextFluent ==
    \E this \in DOMAIN nodes :
        \/ \E opts \in MessageOptions : StringMin(this, 1, opts)
        \/ StringMin(this, 3, NoMessage)
        \/ StringMax(this, 3, NoMessage)
        \/ StringLength(this, 1, NoMessage)
        \/ StringPattern(this, RegExp("version"), NoMessage)
        \/ StringEmail(this, NoMessage)
        \/ StringUuid(this, NoMessage)
        \/ StringDate(this, NoMessage)
        \/ StringDatetime(this, NoMessage)
        \/ StringNonempty(this, NoMessage)
        \/ \E validate \in {"hasLowercase", "hasNumber"} :
                StringRefine(this, validate, NoMessage)
        \/ StringCpf(this, NoMessage)
        \/ StringCnpj(this, NoMessage)
        \/ StringCep(this, NoMessage)
        \/ SafeParse(this)

SpecFluent == InitFluent /\ [][NextFluent]_vars

(***************************************************************************)
(* C10. Every fluent configuration method of a string validator returns a  *)
(* new validator and leaves the receiver unchanged: the validator without  *)
(* a lower bound still accepts the empty string after .min was called on   *)
(* it, and the validator a .min call returns enforces the bound of that    *)
(* call only, whatever bounds earlier .min calls set.                      *)
(***************************************************************************)
FluentOps ==
    {"min", "max", "length", "pattern", "email", "uuid", "date", "datetime",
     "nonempty", "refine", "cpf", "cnpj", "cep"}

\* a fluent call returned: what it returned is a reference that did not
\* exist, and every instance that existed is as it was
ReceiverUntouched ==
    (last' # last /\ last'.op \in FluentOps)
        => /\ last'.ret \notin DOMAIN nodes
           /\ last'.ret \in DOMAIN nodes'
           /\ \A r \in DOMAIN nodes : nodes'[r] = nodes[r]

\* what the instance returns for a string, called on its own
Verdict(ref, str) ==
    safeParse(nodes, ref, Str(str), [errorMap |-> Undefined], Globals).result

TooSmall(result, bound) ==
    /\ ~result.success
    /\ Len(result.error.issues) = 1
    /\ result.error.issues[1].code = "too_small"
    /\ result.error.issues[1].minimum = bound

IsTooSmall(result) ==
    ~result.success /\ result.error.issues[1].code = "too_small"

LastMinWins ==
    last.op = "min"
        => /\ nodes[last.ret].options.minLength = last.arg
           /\ \A str \in Strings :
                IF Len(str) < last.arg.num
                THEN TooSmall(Verdict(last.ret, str), last.arg)
                ELSE /\ ~IsTooSmall(Verdict(last.ret, str))
                     /\ ~IsTooSmall(Verdict(last.receiver, str))
                            => Verdict(last.ret, str) = Verdict(last.receiver, str)

OriginalStillUnbounded ==
    /\ nodes[1].options.minLength = Undefined
    /\ Verdict(1, "") = Success(Str(""))

C10_FluentCallsReturnNewValidators ==
    /\ [][ReceiverUntouched]_vars
    /\ [](LastMinWins /\ OriginalStillUnbounded)

\* .min(1) called on the result of .min(3): the bound is 1 again
C10_Witness ==
    /\ last.op = "min" /\ last.arg = Num(1)
    /\ nodes[last.receiver].options.minLength = Num(3)
    /\ Verdict(last.ret, "x") = Success(Str("x"))
    /\ ~Verdict(last.receiver, "x").success

(***************************************************************************)
(* Deriving object validators: the state machine of the derivation calls.  *)
(* It starts from                                                          *)
(*   s.object({ a: s.string(), b: s.number().default(5).optional() })      *)
(* the instances it is built from, and a strict or passthrough validator   *)
(* of one field; every call is made on an object                           *)
(* validator of the heap and what it allocates joins the heap.             *)
(***************************************************************************)
ObjectCatalog ==
    << NewStringType,                                      \* 1 s.string()
       NewNumberType,                                      \* 2 s.number()
       NewDefaultType(2, Num(5)),                          \* 3 [2].default(5)
       NewOptionalType(3),                                 \* 4 [3].optional()
       [kind |-> "object", shape |-> <<Field("a", 1), Field("b", 4)>>,
        unknownKeys |-> "strip", shapeRef |-> 1]           \* 5 s.object({...})
    >>

\* new ObjectType({ a: [1] }, unknownKeys): a second object validator, built
\* with a policy of its own
SecondObject(unknownKeys) ==
    [kind |-> "object", shape |-> <<Field("a", 1)>>,
     unknownKeys |-> unknownKeys, shapeRef |-> 2]

InitObject ==
    /\ nodes \in {Append(ObjectCatalog, SecondObject(unknownKeys)) :
                    unknownKeys \in {"strict", "passthrough"}}
    /\ counter = 0
    /\ currentErrorMap = "defaultErrorMap"
    /\ given = [value |-> Obj(<<>>), options |-> [errorMap |-> Undefined]]
    /\ last = [op |-> "none"]

\* the call returned r: the heap is what it left, `last` what was called
DerivationCall(op, this, r) ==
    /\ nodes[this].kind = "object"
    /\ Len(r.h) <= MaxHeap
    /\ nodes' = r.h
    /\ last' = [op |-> op, receiver |-> this, ret |-> r.ref]
    /\ UNCHANGED <<counter, currentErrorMap, given>>

ObjectStrict(this) == DerivationCall("strict", this, ObjectType_strict(nodes, this))

ObjectPassthrough(this) ==
    DerivationCall("passthrough", this, ObjectType_passthrough(nodes, this))

ObjectStrip(this) == DerivationCall("strip", this, ObjectType_strip(nodes, this))

ObjectExtend(this, additional) ==
    DerivationCall("extend", this, ObjectType_extend(nodes, this, additional))

ObjectPick(this, keys) ==
    /\ nodes[this].kind = "object"
    /\ \A i \in 1..Len(keys) : \E j \in 1..Len(nodes[this].shape) :
            nodes[this].shape[j].key = keys[i]
    /\ DerivationCall("pick", this, ObjectType_pick(nodes, this, keys))

ObjectOmit(this, keys) ==
    DerivationCall("omit", this, ObjectType_omit(nodes, this, keys))

ObjectPartial(this) == DerivationCall("partial", this, ObjectType_partial(nodes, this))

ObjectRequired(this) ==
    DerivationCall("required", this, ObjectType_required(nodes, this))

\* the arguments the calls are made with
PickedKeys == {<<"a">>, <<"b">>, <<"b", "a">>}
OmittedKeys == {<<"a">>, <<"b">>}
Additions == {<<Field("c", 2)>>, <<Field("a", 2)>>}

NextObject ==
    \E this \in DOMAIN nodes :
        \/ ObjectStrict(this)
        \/ ObjectPassthrough(this)
        \/ ObjectStrip(this)
        \/ \E additional \in Additions : ObjectExtend(this, additional)
        \/ \E keys \in PickedKeys : ObjectPick(this, keys)
        \/ \E keys \in OmittedKeys : ObjectOmit(this, keys)
        \/ ObjectPartial(this)
        \/ ObjectRequired(this)

SpecObject == InitObject /\ [][NextObject]_vars

(***************************************************************************)
(* C11. After any sequence of pick, omit, partial, required, extend,       *)
(* strict, passthrough and strip calls on an object validator, the         *)
(* original validator's shape (its keys and the validator bound to each    *)
(* key) and its unknown-key policy are unchanged, and each call returned a *)
(* new object validator with a new shape.                                  *)
(***************************************************************************)
NewShapeOps == {"pick", "omit", "partial", "required", "extend"}
PolicyOps == {"strict", "passthrough", "strip"}
ObjectOps == NewShapeOps \cup PolicyOps

DerivationReturned == last' # last /\ last'.op \in ObjectOps

\* every instance that existed is as it was, and the call returned an object
\* validator that did not exist
OriginalsUntouched ==
    DerivationReturned
        => /\ \A r \in DOMAIN nodes : nodes'[r] = nodes[r]
           /\ last'.ret \notin DOMAIN nodes
           /\ last'.ret \in DOMAIN nodes'
           /\ nodes'[last'.ret].kind = "object"

\* the validator returned holds a shape object no instance held before
ReturnsNewShape ==
    DerivationReturned => nodes'[last'.ret].shapeRef \notin ShapeRefs(nodes)

\* the first object validator is the one the state machine started from
FirstObject == Len(ObjectCatalog)
FirstObjectAsBuilt == nodes[FirstObject] = ObjectCatalog[FirstObject]

\* C11 as stated: violated, strict(), passthrough() and strip() hand the
\* receiver's own shape object to the validator they return
C11_EveryDerivationReturnsNewShape ==
    /\ [][OriginalsUntouched /\ ReturnsNewShape]_vars
    /\ []FirstObjectAsBuilt

\* pick, omit, partial, required and extend build a shape object of their
\* own; strict, passthrough and strip keep the receiver's and set the policy
NewOrSharedShape ==
    DerivationReturned
        => IF last'.op \in NewShapeOps
           THEN /\ nodes'[last'.ret].shapeRef \notin ShapeRefs(nodes)
                /\ nodes'[last'.ret].unknownKeys = nodes[last'.receiver].unknownKeys
           ELSE /\ nodes'[last'.ret].shapeRef = nodes[last'.receiver].shapeRef
                /\ nodes'[last'.ret].shape = nodes[last'.receiver].shape
                /\ nodes'[last'.ret].unknownKeys = last'.op

\* C11 amended: the originals are unchanged and every call returns a new
\* object validator; the five shape derivations give it a new shape, the
\* three policy switches the receiver's shape
C11_DerivationsLeaveOriginalsUntouched ==
    /\ [][OriginalsUntouched /\ NewOrSharedShape]_vars
    /\ []FirstObjectAsBuilt

\* omit called on a derived validator whose shape object a validator of
\* another policy holds too: the shape they share still has every key
C11_Witness ==
    /\ last.op = "omit" /\ last.receiver > FirstObject
    /\ Len(nodes[last.ret].shape) < Len(nodes[last.receiver].shape)
    /\ \E r \in DOMAIN nodes :
        /\ nodes[r].kind = "object" /\ r # last.receiver
        /\ nodes[r].shapeRef = nodes[last.receiver].shapeRef
        /\ nodes[r].unknownKeys # nodes[last.receiver].unknownKeys
        /\ nodes[r].shape = nodes[last.receiver].shape

(***************************************************************************)
(* C12. required() on an object validator turns each field that is an      *)
(* optional wrapper around a validator V into a field that accepts and     *)
(* rejects exactly the inputs V accepts and rejects, with the same         *)
(* outputs, and leaves every field that is not an optional wrapper bound   *)
(* to the same validator.                                                  *)
(* Violated: the field becomes a wrapper that rejects undefined before V   *)
(* is asked, so a V that accepts undefined (a default, an optional) is not *)
(* restored.                                                               *)
(***************************************************************************)
\* what an instance returns for a value, called on its own
Outcome(ref, value) ==
    safeParse(nodes, ref, value, [errorMap |-> Undefined], Globals).result

SameVerdict(r1, r2) ==
    /\ r1.success = r2.success
    /\ r1.success => r1.data = r2.data

C12_RequiredRestoresInnerValidator ==
    last.op = "required"
        => LET before == nodes[last.receiver].shape
               after == nodes[last.ret].shape
           IN  /\ Len(after) = Len(before)
               /\ \A i \in 1..Len(before) :
                    /\ after[i].key = before[i].key
                    /\ IF nodes[before[i].schema].kind = "optional"
                       THEN \A v \in Primitives :
                                SameVerdict(Outcome(after[i].schema, v),
                                    Outcome(nodes[before[i].schema].innerType, v))
                       ELSE after[i].schema = before[i].schema

(***************************************************************************)
(* C28. extend, pick, omit, partial and required return a validator with   *)
(* the unknown-key policy of the receiver: derived from a strict validator *)
(* it rejects an input with an unknown key, derived from a passthrough     *)
(* validator it copies the unknown key to the output, and derived from a   *)
(* stripping validator it leaves the unknown key out.                      *)
(***************************************************************************)
\* inputs with the key z, which no shape of the state machine declares
UnknownKeyInputs ==
    { Obj(<<<<"z", Num(1)>>>>),
      Obj(<<<<"a", Str("x")>>, <<"z", Num(1)>>>>),
      Obj(<<<<"z", Str("x")>>, <<"a", Str("x")>>, <<"b", Num(1)>>>>),
      Obj(<<<<"a", Num(1)>>, <<"c", Num(1)>>, <<"z", Null>>>>),
      Obj(<<<<"a", Str("x")>>, <<"b", Undefined>>, <<"c", Num(1)>>, <<"z", Num(1)>>>>) }

RejectsUnknownKeys(result) ==
    /\ ~result.success
    /\ Len(result.error.issues) = 1
    /\ result.error.issues[1].code = "unrecognized_keys"

CopiesUnknownKeys(result, v) ==
    result.success
        => /\ HasKey(result.data.obj, "z")
           /\ GetProp(result.data.obj, "z") = GetProp(v.obj, "z")

DropsUnknownKeys(result) == result.success => ~HasKey(result.data.obj, "z")

PolicyActs(ref, policy) ==
    \A v \in UnknownKeyInputs :
        CASE policy = "strict" -> RejectsUnknownKeys(Outcome(ref, v))
          [] policy = "passthrough" -> CopiesUnknownKeys(Outcome(ref, v), v)
          [] policy = "strip" -> DropsUnknownKeys(Outcome(ref, v))

C28_DerivationKeepsUnknownKeyPolicy ==
    last.op \in NewShapeOps
        => /\ nodes[last.ret].unknownKeys = nodes[last.receiver].unknownKeys
           /\ PolicyActs(last.receiver, nodes[last.receiver].unknownKeys)
           /\ PolicyActs(last.ret, nodes[last.receiver].unknownKeys)

\* partial() on a strict validator: the validator returned accepts {} without
\* any field and still rejects { z: 1 }
C28_Witness ==
    /\ last.op = "partial"
    /\ nodes[last.receiver].unknownKeys = "strict"
    /\ Outcome(last.ret, Obj(<<>>)) = Success(Obj(<<>>))
    /\ RejectsUnknownKeys(Outcome(last.ret, Obj(<<<<"z", Num(1)>>>>)))

(***************************************************************************)
(* Converting validators to JSON Schema and back: the state machine.       *)
(* The heap holds the validators of JsonCatalog and, after fromJsonSchema, *)
(* the validator it returned with everything built for it; a validator     *)
(* reconstructed earlier is no longer referenced and is not kept.          *)
(***************************************************************************)
StringWith(minLength, maxLength) ==
    [NewStringType EXCEPT !.options.minLength = minLength,
                          !.options.maxLength = maxLength]

StringFormat(format) ==
    [NewStringType EXCEPT !.options.pattern = RegExp(format),
                          !.options.format = Str(format)]

NumberWith(isInt, minimum, maximum) ==
    [NewNumberType EXCEPT !.options.isInt = isInt, !.options.minimum = minimum,
                          !.options.maximum = maximum]

ArrayWith(element, minLength, maxLength) ==
    [NewArrayType(element) EXCEPT !.minLength = minLength, !.maxLength = maxLength]

JsonCatalog ==
    << NewStringType,                                  \*  1 s.string()
       StringWith(Num(1), Num(3)),                     \*  2 s.string().min(1).max(3)
       StringFormat("email"),                          \*  3 s.string().email()
       StringFormat("uuid"),                           \*  4 s.string().uuid()
       StringFormat("date"),                           \*  5 s.string().date()
       StringFormat("datetime"),                       \*  6 s.string().datetime()
       NewNumberType,                                  \*  7 s.number()
       NumberWith(Bool(TRUE), MIN_VALUE, Undefined),   \*  8 s.number().int().positive()
       NumberWith(Undefined, Num(0), Num(10)),         \*  9 s.number().min(0).max(10)
       NewBooleanType,                                 \* 10 s.boolean()
       NewLiteralType(Str("x")),                       \* 11 s.literal('x')
       NewEnumType(<<Str("x"), Str("hello")>>),        \* 12 s.enum(['x', 'hello'])
       NewOptionalType(3),                             \* 13 [3].optional()
       NewObjectType(<<Field("id", 8), Field("email", 13)>>, "strip"), \* 14
       NewArrayType(7),                                \* 15 s.array(s.number())
       ArrayWith(1, Num(1), Num(2)),                   \* 16 s.array(s.string()).min(1).max(2)
       NewUnionType(<<1, 7>>),                         \* 17 s.union([[1], [7]])
       NewNullableType(2),                             \* 18
       NewNullableType(8),                             \* 19
       NewNullableType(10),                            \* 20
       NewNullableType(11),                            \* 21
       NewNullableType(12),                            \* 22
       NewNullableType(14),                            \* 23
       NewNullableType(15),                            \* 24
       NewNullableType(17),                            \* 25
       NewDefaultType(7, Num(5)),                      \* 26 [7].default(5)
       NewDefaultType(7, Fn("counter")),               \* 27 [7].default(() => ++counter)
       NewObjectType(<<Field("b", 1), Field("a", 26), Field("c", 27),
                       Field("email", 13), Field("id", 7)>>, "strip"), \* 28
       NewArrayType(14),                               \* 29 s.array([14])
       NewNullableType(18),                            \* 30 [18].nullable()
       NewNullishType(1),                              \* 31 [1].nullish()
       NewLiteralType(Num(5)),                         \* 32 s.literal(5)
       NewUnionType(<<14, 16>>),                       \* 33
       NewObjectType(<<Field("a", 13), Field("b", 26)>>, "strip"), \* 34
       NewObjectType(<<Field("a", 23), Field("b", 16)>>, "strip"), \* 35
       NewLiteralType(Undefined),                      \* 36 s.literal(undefined)
       NewDefaultType(26, Fn("counter")),              \* 37 [26].default(() => ++counter)
       NewObjectType(<<Field("a", 37), Field("b", 1)>>, "strip")   \* 38
    >>

JsonStrings ==
    {"", "x", "hello", "abcd", "a@b.com", "not-an-email", "2024-01-15",
     "2024-01-15T10:30:00Z", "550e8400-e29b-41d4-a716-446655440000",
     "550E8400-E29B-41D4-A716-446655440000"}

JsonObjects ==
    {Obj(<<>>), Obj(<<<<"id", Num(1)>>>>),
     Obj(<<<<"id", Num(1)>>, <<"email", Str("a@b.com")>>>>),
     Obj(<<<<"id", Num(-1)>>>>),
     Obj(<<<<"id", Num(1)>>, <<"email", Str("not-an-email")>>>>),
     Obj(<<<<"id", Half(1)>>>>), Obj(<<<<"id", Str("x")>>>>),
     Obj(<<<<"a", Str("a@b.com")>>, <<"b", Num(1)>>>>),
     Obj(<<<<"a", Null>>, <<"b", Arr(<<Str("x")>>)>>>>),
     Obj(<<<<"a", Obj(<<<<"id", Num(1)>>>>)>>, <<"b", Arr(<<Str("x")>>)>>>>),
     Obj(<<<<"a", Obj(<<<<"id", Num(-1)>>>>)>>, <<"b", Arr(<<Str("x")>>)>>>>),
     Obj(<<<<"a", Null>>, <<"b", Arr(<<>>)>>>>),
     Obj(<<<<"b", Str("x")>>, <<"id", Num(1)>>>>),
     Obj(<<<<"b", Str("x")>>, <<"id", Num(1)>>, <<"a", Str("x")>>>>)}

JsonArrays ==
    {Arr(<<>>), Arr(<<Num(1)>>), Arr(<<Str("x")>>), Arr(<<Str("x"), Num(1)>>),
     Arr(<<Str("x"), Str("x")>>), Arr(<<Str("x"), Str("x"), Str("x")>>),
     Arr(<<Obj(<<<<"id", Num(1)>>>>)>>), Arr(<<Obj(<<<<"id", Num(-1)>>>>)>>)}

JsonInputs ==
    {Undefined, Null, Bool(TRUE), Bool(FALSE), NaN, Infinity,
     Num(-1), Num(0), MIN_VALUE, Half(0), Num(1), Num(5), Half(5), Num(10), Num(11)}
    \cup {Str(str) : str \in JsonStrings} \cup JsonObjects \cup JsonArrays

InitJson ==
    /\ nodes = JsonCatalog
    /\ counter = 0
    /\ currentErrorMap = "defaultErrorMap"
    /\ given \in [value : JsonInputs, options : {[errorMap |-> Undefined]}]
    /\ last = [op |-> "none"]

\* const json = toJsonSchema(schema)
ToJsonSchema(ref) ==
    /\ nodes' = SubSeq(nodes, 1, Len(JsonCatalog))
    /\ last' = [op |-> "toJsonSchema", schema |-> ref,
                json |-> toJsonSchema(nodes, ref)]
    /\ UNCHANGED <<counter, currentErrorMap, given>>

\* reconstructed = fromJsonSchema(json), json being what toJsonSchema returned
FromJsonSchema ==
    /\ last.op = "toJsonSchema"
    /\ LET r == fromJsonSchema(SubSeq(nodes, 1, Len(JsonCatalog)), last.json) IN
        /\ nodes' = r.h
        /\ last' = [op |-> "fromJsonSchema", schema |-> last.schema,
                    json |-> last.json, ret |-> r.ref]
    /\ UNCHANGED <<counter, currentErrorMap, given>>

NextJson ==
    \/ \E ref \in 1..Len(JsonCatalog) : ToJsonSchema(ref)
    \/ FromJsonSchema

SpecJson == InitJson /\ [][NextJson]_vars

(***************************************************************************)
(* C13. For object({id: number().int().positive(),                         *)
(* email: string().email().optional()}), fromJsonSchema(toJsonSchema(v))   *)
(* accepts {id: 1} and {id: 1, email: 'a@b.com'} and rejects {id: -1} and  *)
(* {id: 1, email: 'not-an-email'}, as the original validator does.         *)
(***************************************************************************)
UserSchema ==
    CHOOSE r \in DOMAIN JsonCatalog :
        JsonCatalog[r].kind = "object"
        /\ [i \in 1..Len(JsonCatalog[r].shape) |-> JsonCatalog[r].shape[i].key]
                = <<"id", "email">>

Reconstructed == last.op = "fromJsonSchema"

UserAccepted ==
    {Obj(<<<<"id", Num(1)>>>>),
     Obj(<<<<"id", Num(1)>>, <<"email", Str("a@b.com")>>>>)}

UserRejected ==
    {Obj(<<<<"id", Num(-1)>>>>),
     Obj(<<<<"id", Num(1)>>, <<"email", Str("not-an-email")>>>>)}

C13_UserSchemaRoundTrip ==
    (Reconstructed /\ last.schema = UserSchema)
        => /\ given.value \in UserAccepted
                => /\ Outcome(last.ret, given.value) = Success(given.value)
                   /\ Outcome(UserSchema, given.value) = Success(given.value)
           /\ given.value \in UserRejected
                => /\ ~Outcome(last.ret, given.value).success
                   /\ ~Outcome(UserSchema, given.value).success

\* the reconstructed validator rejects the malformed email with the issue the
\* original gives
C13_Witness ==
    /\ Reconstructed /\ last.schema = UserSchema
    /\ given.value = Obj(<<<<"id", Num(1)>>, <<"email", Str("not-an-email")>>>>)
    /\ ~Outcome(last.ret, given.value).success
    /\ Outcome(last.ret, given.value).error.issues[1].path = <<KeySeg("email")>>
    /\ Outcome(last.ret, given.value) = Outcome(UserSchema, given.value)

(***************************************************************************)
(* C14. For every validator v built only from the round-trippable features *)
(* (string with min/max length and email/uuid/date/date-time format,       *)
(* number with int/min/max, boolean, literal, enum, object with required   *)
(* and optional fields, array with length bounds, union, and nullable      *)
(* applied to any of these), fromJsonSchema(toJsonSchema(v)) accepts an    *)
(* input if and only if v accepts it.                                      *)
(* Violated: the mapping of a nullable object or array keeps `type` only,  *)
(* so the validator built back has lost the fields, the element validator  *)
(* and the length bounds.                                                  *)
(***************************************************************************)
RECURSIVE RoundTrippable(_, _)
RoundTrippable(h, ref) ==
    LET node == h[ref] IN
    CASE node.kind = "string" ->
            /\ node.options.customValidators = <<>>
            /\ \/ node.options.pattern = Undefined /\ node.options.format = Undefined
               \/ /\ node.options.format \in
                        {Str("email"), Str("uuid"), Str("date"), Str("datetime")}
                  /\ node.options.pattern = RegExp(node.options.format.str)
      [] node.kind \in {"number", "boolean", "literal", "enum"} -> TRUE
      [] node.kind = "object" ->
            /\ node.unknownKeys = "strip"
            /\ \A i \in 1..Len(node.shape) :
                IF h[node.shape[i].schema].kind = "optional"
                THEN RoundTrippable(h, h[node.shape[i].schema].innerType)
                ELSE RoundTrippable(h, node.shape[i].schema)
      [] node.kind = "array" ->
            node.exactLength = Undefined /\ RoundTrippable(h, node.element)
      [] node.kind = "union" ->
            \A i \in 1..Len(node.options) : RoundTrippable(h, node.options[i])
      [] node.kind = "nullable" -> RoundTrippable(h, node.innerType)
      [] OTHER -> FALSE

C14_RoundTripAcceptsTheSame ==
    (Reconstructed /\ RoundTrippable(nodes, last.schema))
        => Outcome(last.ret, given.value).success
                = Outcome(last.schema, given.value).success

(***************************************************************************)
(* C15. toJsonSchema of an object validator lists in `required` exactly    *)
(* those shape keys, in shape insertion order, whose field validator is    *)
(* neither an optional wrapper nor a default wrapper; for a default-       *)
(* wrapped field the property's `default` is the default value when it is  *)
(* a fixed value, and no `default` is emitted when the default is a        *)
(* generator function.                                                     *)
(* Violated: a generator default wrapped around a fixed default leaves the *)
(* inner wrapper's `default` in the property.                              *)
(***************************************************************************)
\* the keys of the fields that are neither optional nor default wrappers
RequiredKeys(h, shape) ==
    LET required == SelectSeq(shape,
            LAMBDA f : h[f.schema].kind \notin {"optional", "default"})
    IN  [i \in 1..Len(required) |-> Str(required[i].key)]

\* the `required` list of a mapping, empty when the keyword is absent
RequiredListed(json) ==
    IF HasKey(json.obj, "required") THEN JsonGet(json, "required").arr ELSE <<>>

C15_RequiredAndDefaultOfObject ==
    (last.op = "toJsonSchema" /\ nodes[last.schema].kind = "object")
        => LET shape == nodes[last.schema].shape
               properties == JsonGet(last.json, "properties")
           IN  /\ RequiredListed(last.json) = RequiredKeys(nodes, shape)
               /\ ObjectKeys(properties.obj) = [i \in 1..Len(shape) |-> shape[i].key]
               /\ \A i \in 1..Len(shape) :
                    LET field == nodes[shape[i].schema]
                        property == JsonGet(properties, shape[i].key)
                    IN  field.kind = "default"
                            => IF TypeOf(field.defaultValue) # "function"
                               THEN /\ HasKey(property.obj, "default")
                                    /\ JsonGet(property, "default") = field.defaultValue
                               ELSE ~HasKey(property.obj, "default")

(***************************************************************************)
(* The process-wide error map and the two entry points: the state machine. *)
(* setErrorMap, resetErrorMap, safeParse (with and without a per-call      *)
(* errorMap) and parse are called in any order on the validators of        *)
(* MessageCatalog, with the value the behaviour starts with.               *)
(***************************************************************************)
MessageCatalog ==
    << StringWith(Num(2), Undefined),                  \*  1 s.string().min(2)
       [StringWith(Num(2), Num(4)) EXCEPT              \*  2 s.string().min(2, 'Too short').max(4)
            !.options.customMessages.min = Str("Too short")],
       [NumberWith(Bool(TRUE), Num(0), Undefined) EXCEPT   \*  3 s.number().int().min(0, 'Too small')
            !.options.customMessages.min = Str("Too small")],
       [ArrayWith(2, Num(1), Undefined) EXCEPT         \*  4 s.array([2]).min(1, { message: 'Need one' })
            !.minMessage = Str("Need one")],
       NewObjectType(<<Field("a", 2), Field("b", 3)>>, "strip"),   \*  5
       NewObjectType(<<Field("a", 1)>>, "strict"),     \*  6 s.object({a: [1]}).strict()
       NewOptionalType(2),                             \*  7 [2].optional()
       NewUnionType(<<1, 3>>),                         \*  8 s.union([[1], [3]])
       NewLiteralType(Str("x")),                       \*  9 s.literal('x')
       [NewStringType EXCEPT                           \* 10 s.string().refine(hasNumber, 'Needs a digit')
            !.options.customValidators =
                <<[validate |-> "hasNumber", message |-> Str("Needs a digit")]>>]
    >>

MessageInputs ==
    {Undefined, Str("x"), Str("hello"), Str("Ab1"), Num(-1), Num(10), Half(1),
     Arr(<<>>), Arr(<<Str("x")>>), Arr(<<Str("hi")>>),
     Obj(<<<<"a", Str("x")>>>>),
     Obj(<<<<"a", Str("hi")>>, <<"b", Num(-1)>>>>),
     Obj(<<<<"a", Str("hi")>>, <<"c", Num(10)>>>>),
     Obj(<<<<"a", Str("x")>>, <<"b", Half(1)>>, <<"c", Num(10)>>>>)}

InitMessages ==
    /\ nodes = MessageCatalog
    /\ counter = 0
    /\ currentErrorMap = "defaultErrorMap"
    /\ given \in [value : MessageInputs, options : {[errorMap |-> Undefined]}]
    /\ last = [op |-> "none"]

\* setErrorMap(errorMap)
setErrorMap(errorMap) ==
    /\ currentErrorMap' = errorMap
    /\ last' = [op |-> "setErrorMap", errorMap |-> errorMap]
    /\ UNCHANGED <<nodes, counter, given>>

\* getErrorMap()
getErrorMap == currentErrorMap

\* resetErrorMap()
resetErrorMap ==
    /\ currentErrorMap' = "defaultErrorMap"
    /\ last' = [op |-> "resetErrorMap"]
    /\ UNCHANGED <<nodes, counter, given>>

\* schema.safeParse(given.value, options), writing the per-call map to the
\* process-wide slot
SafeParseWith_InstallsMap(ref, options) ==
    LET r == safeParse(nodes, ref, given.value, options, Globals) IN
    /\ r.g.counter <= MaxCounter
    /\ counter' = r.g.counter
    /\ given' = [given EXCEPT !.options = options]
    /\ last' = SafeParseCall(ref, r)
    /\ currentErrorMap' = IF Truthy(options.errorMap) THEN options.errorMap.fn
                          ELSE currentErrorMap
    /\ UNCHANGED nodes

\* schema.safeParse(given.value, options)
SafeParseWith(ref, options) ==
    LET r == safeParse(nodes, ref, given.value, options, Globals) IN
    /\ r.g.counter <= MaxCounter
    /\ counter' = r.g.counter
    /\ given' = [given EXCEPT !.options = options]
    /\ last' = SafeParseCall(ref, r)
    /\ UNCHANGED <<nodes, currentErrorMap>>

\* what a call leaves its caller with: a returned value or a thrown error
Returns(value) == [thrown |-> FALSE, value |-> value]
Throws(error) == [thrown |-> TRUE, error |-> error]

\* `if (!result.success) throw result.error; return result.data`; what
\* safeParse raised passes through
ThrowOrReturn(r) ==
    [outcome |-> IF IsRaised(r) THEN Throws(r.raised)
                 ELSE IF ~r.result.success THEN Throws(r.result.error)
                 ELSE Returns(r.result.data),
     g |-> r.g]

\* BaseType.parse
BaseType_parse(h, this, value, g) ==
    ThrowOrReturn(safeParse(h, this, value, [errorMap |-> Undefined], g))

\* schema.parse(given.value)
Parse(ref) ==
    LET r == BaseType_parse(nodes, ref, given.value, Globals) IN
    /\ r.g.counter <= MaxCounter
    /\ counter' = r.g.counter
    /\ given' = [given EXCEPT !.options = [errorMap |-> Undefined]]
    /\ last' = [op |-> "parse", schema |-> ref, before |-> counter,
                outcome |-> r.outcome, log |-> r.g.log]
    /\ UNCHANGED <<nodes, currentErrorMap>>

NextMessages ==
    \/ \E errorMap \in ErrorMapNames : setErrorMap(errorMap)
    \/ resetErrorMap
    \/ \E ref \in DOMAIN nodes, options \in CallOptions : SafeParseWith(ref, options)
    \/ \E ref \in DOMAIN nodes : Parse(ref)

SpecMessages == InitMessages /\ [][NextMessages]_vars

(***************************************************************************)
(* C16. The message of every issue is chosen with the precedence: the      *)
(* error-message function passed to this safeParse call, else the custom   *)
(* message given to the failing check on the validator node, else the      *)
(* process-wide error map current at the time of the parse (the built-in   *)
(* default map unless it was replaced).                                    *)
(* Violated: the unrecognized-keys issue of a strict object carries the    *)
(* text the code builds for it, whatever the process-wide map is.          *)
(***************************************************************************)
\* the validator an issue's path leads to, wrappers looked through
RECURSIVE NodeAt(_, _, _)
NodeAt(h, ref, path) ==
    LET node == h[ref] IN
    IF node.kind \in {"optional", "nullable", "nullish", "default", "transform"}
    THEN NodeAt(h, node.innerType, path)
    ELSE IF path = <<>> THEN ref
    ELSE IF node.kind = "object"
    THEN LET i == CHOOSE i \in 1..Len(node.shape) : KeySeg(node.shape[i].key) = path[1]
         IN  NodeAt(h, node.shape[i].schema, Tail(path))
    ELSE IF node.kind = "array" THEN NodeAt(h, node.element, Tail(path))
    ELSE ref

\* the custom message the caller gave to the check an issue comes from
\* (undefined when none was given, or when the check takes none)
GivenMessage(node, issue) ==
    CASE node.kind = "string" /\ issue.code = "too_small" -> node.options.customMessages.min
      [] node.kind = "string" /\ issue.code = "too_big" -> node.options.customMessages.max
      [] node.kind = "string" /\ issue.code = "invalid_string" ->
            node.options.customMessages.pattern
      [] node.kind = "string" /\ issue.code = "custom" ->
            node.options.customValidators[1].message
      [] node.kind = "number" /\ issue.code = "invalid_type"
            /\ issue.expected = Str("integer") -> node.options.customMessages.int
      [] node.kind = "number" /\ issue.code = "too_small" -> node.options.customMessages.min
      [] node.kind = "number" /\ issue.code = "too_big" -> node.options.customMessages.max
      [] node.kind = "array" /\ issue.code = "too_small" -> node.minMessage
      [] node.kind = "array" /\ issue.code = "too_big" -> node.maxMessage
      [] OTHER -> Undefined

MessageByPrecedence(issue) ==
    LET bare == [issue EXCEPT !.message = ""]
        custom == GivenMessage(nodes[NodeAt(nodes, last.schema, issue.path)], issue)
    IN  IF given.options.errorMap # Undefined
        THEN CallErrorMap(given.options.errorMap.fn, bare)
        ELSE IF custom # Undefined THEN custom.str
        ELSE CallErrorMap(currentErrorMap, bare)

C16_MessagePrecedence ==
    (last.op = "safeParse" /\ ~last.result.success)
        => \A i \in 1..Len(last.result.error.issues) :
                last.result.error.issues[i].message
                    = MessageByPrecedence(last.result.error.issues[i])

(***************************************************************************)
(* C17. After any sequence of setErrorMap, resetErrorMap and safeParse     *)
(* calls (with or without a per-call errorMap), getErrorMap returns the    *)
(* argument of the most recent setErrorMap if no resetErrorMap followed    *)
(* it, and the built-in default map otherwise; a per-call errorMap applies *)
(* to that call only: it never changes the process-wide map, and a call    *)
(* without one takes its messages from the process-wide map.               *)
(***************************************************************************)
\* a call of safeParse or parse has just returned
ParseReturned == last' # last /\ last'.op \in {"safeParse", "parse"}

ErrorMapStep ==
    /\ (last'.op = "setErrorMap" /\ last' # last) => getErrorMap' = last'.errorMap
    /\ (last'.op = "resetErrorMap" /\ last' # last) => getErrorMap' = "defaultErrorMap"
    /\ ParseReturned => getErrorMap' = getErrorMap

\* the messages of a call without a per-call map on a validator without
\* custom messages are those of the process-wide map
ProcessWideMessages ==
    (/\ last.op = "safeParse" /\ last.schema = 1 /\ ~last.result.success
     /\ given.options.errorMap = Undefined)
        => last.result.error.issues[1].message
                = CallErrorMap(getErrorMap,
                               [last.result.error.issues[1] EXCEPT !.message = ""])

C17_ErrorMapFollowsSetAndReset ==
    /\ getErrorMap = "defaultErrorMap"
    /\ [][ErrorMapStep]_vars
    /\ []ProcessWideMessages

C17_Witness ==
    /\ last.op = "safeParse" /\ last.schema = 1 /\ ~last.result.success
    /\ given.options.errorMap = Undefined
    /\ getErrorMap = "codeMap"

(***************************************************************************)
(* Conversions and callbacks that can throw: the state machine.  safeParse *)
(* and parse are called on the validators of CoerceCatalog with a value of *)
(* CoerceInputs, among them a Symbol and objects created with              *)
(* Object.create(null).                                                    *)
(***************************************************************************)
CoerceCatalog ==
    << NewCoercedNumberType,                            \*  1 s.coerce.number()
       NewCoercedStringType,                            \*  2 s.coerce.string()
       NewLiteralType(Str("x")),                        \*  3 s.literal('x')
       NewEnumType(<<Str("x"), Str("hello")>>),         \*  4 s.enum(['x', 'hello'])
       NewObjectType(<<Field("a", 1), Field("b", 3)>>, "strip"),
                                                        \*  5 s.object({a: [1], b: [3]})
       NewArrayType(2),                                 \*  6 s.array([2])
       NewUnionType(<<3, 1>>),                          \*  7 s.union([[3], [1]])
       NewTransformType(2, "toUpperCase"),              \*  8 [2].transform(toUpperCase)
       NewNullableType(2),                              \*  9 [2].nullable()
       NewTransformType(9, "trim"),                     \* 10 [9].transform(trim)
       NewOptionalType(1),                              \* 11 [1].optional()
       NewDefaultType(4, Str("x"))                      \* 12 [4].default('x')
    >>

CoerceInputs ==
    {Undefined, Null, Bool(TRUE), Num(5), Str(""), Str("x"), Str("5"), Str(" hi "),
     Symbol, NullProtoObj(<<>>), Obj(<<>>),
     Arr(<<>>), Arr(<<Num(10)>>), Arr(<<Str("x"), Null>>), Arr(<<Symbol>>),
     Arr(<<Str("x"), NullProtoObj(<<>>)>>),
     Obj(<<<<"a", Str("5")>>, <<"b", Str("x")>>>>),
     Obj(<<<<"a", Symbol>>, <<"b", Num(5)>>>>),
     Obj(<<<<"a", Str("x")>>, <<"b", NullProtoObj(<<>>)>>>>),
     NullProtoObj(<<<<"a", Num(5)>>, <<"b", Str("x")>>>>)}

InitCoerce ==
    /\ nodes = CoerceCatalog
    /\ counter = 0
    /\ currentErrorMap = "defaultErrorMap"
    /\ given \in [value : CoerceInputs, options : {[errorMap |-> Undefined]}]
    /\ last = [op |-> "none"]

NextCoerce ==
    \/ \E ref \in DOMAIN nodes : SafeParse(ref)
    \/ \E ref \in DOMAIN nodes : Parse(ref)

SpecCoerce == InitCoerce /\ [][NextCoerce]_vars

(***************************************************************************)
(* C18. parse returns the value d exactly when safeParse returns           *)
(* {success: true, data: d}, and otherwise raises the aggregated error     *)
(* that safeParse returns in {success: false, error}; safeParse always     *)
(* returns a result, and both start the walk with an empty path.           *)
(* Violated: safeParse does not guard the walk, so the TypeError of a      *)
(* conversion or of a callback leaves safeParse as it leaves parse.        *)
(***************************************************************************)
\* the safeParse(given.value) call made in the state the last call started in
SafeParseWalk ==
    safeParse(nodes, last.schema, given.value, [errorMap |-> Undefined],
              [Globals EXCEPT !.counter = last.before])

ParseAgreesWithSafeParse ==
    last.op = "parse"
        => /\ ~IsRaised(SafeParseWalk)
           /\ IF SafeParseWalk.result.success
              THEN last.outcome = Returns(SafeParseWalk.result.data)
              ELSE last.outcome = Throws(SafeParseWalk.result.error)

\* a result is a success with its data or a failure with at least one issue
IsResult(r) ==
    IF r.success THEN DOMAIN r = {"success", "data"}
    ELSE DOMAIN r = {"success", "error"} /\ Len(r.error.issues) >= 1

\* safeParse returned, and what it returned is a result
ReturnedResult == "result" \in DOMAIN last /\ IsResult(last.result)

\* a path that starts at the root of the validator: empty for a validator
\* without children, else a key of the shape or an index of the input
RootedPath(ref, path) ==
    LET node == nodes[NodeAt(nodes, ref, <<>>)] IN
    CASE node.kind = "object" ->
            \/ path = <<>>
            \/ Len(path) = 1
                /\ \E i \in 1..Len(node.shape) : path[1] = KeySeg(node.shape[i].key)
      [] node.kind = "array" ->
            \/ path = <<>>
            \/ Len(path) = 1
                /\ \E i \in 1..Len(given.value.arr) : path[1] = IdxSeg(i - 1)
      [] OTHER -> path = <<>>

\* the issues the last call handed to its caller, none when it returned a
\* value or let an exception of the walk through
IssuesOfLastCall ==
    IF last.op = "safeParse" /\ "result" \in DOMAIN last
    THEN IF last.result.success THEN <<>> ELSE last.result.error.issues
    ELSE IF last.op = "parse" /\ last.outcome.thrown
            /\ "issues" \in DOMAIN last.outcome.error
    THEN last.outcome.error.issues
    ELSE <<>>

C18_ParseRaisesWhatSafeParseReturns ==
    /\ ParseAgreesWithSafeParse
    /\ last.op = "safeParse" => ReturnedResult
    /\ \A i \in 1..Len(IssuesOfLastCall) :
            RootedPath(last.schema, IssuesOfLastCall[i].path)

(***************************************************************************)
(* Number validators and the coerced boolean on scalar inputs: the state   *)
(* machine.  The validators are built by the fluent methods.               *)
(***************************************************************************)
\*  1 s.number()                      2 s.coerce.boolean()
\*  3 [1].int()                       4 [3].min(1)
\*  5 [4].max(5)                      6 [1].min(5)
\*  7 [6].max(3)                      8 [1].positive()
LeafCatalog ==
    NumberType_positive(
        NumberType_max(
            NumberType_min(
                NumberType_max(
                    NumberType_min(
                        NumberType_int(<<NewNumberType, NewCoercedBooleanType>>,
                                       1, NoMessage).h,
                        3, Num(1), NoMessage).h,
                    4, Num(5), NoMessage).h,
                1, Num(5), NoMessage).h,
            6, Num(3), NoMessage).h,
        1, NoMessage).h

LeafInputs ==
    {Undefined, Null, Bool(TRUE), Bool(FALSE), NaN, Infinity,
     Str(""), Str("hello"), Str("true"), Str("false"), Str("0"), Str("a@b.com"),
     Str("1.0.0"),
     Num(-1), NegMIN_VALUE, Num(0), MIN_VALUE, Half(0), Num(1), Half(1), Num(2),
     Num(3), Num(4), Num(5), Half(5), Num(6), Half(7), Obj(<<>>), Arr(<<>>)}

InitLeaf ==
    /\ nodes = LeafCatalog
    /\ counter = 0
    /\ currentErrorMap = "defaultErrorMap"
    /\ given \in [value : LeafInputs, options : {[errorMap |-> Undefined]}]
    /\ last = [op |-> "none"]

NextLeaf == \E ref \in DOMAIN nodes : SafeParse(ref)

SpecLeaf == InitLeaf /\ [][NextLeaf]_vars

(***************************************************************************)
(* C19. A number validator checks in the order type (numeric, finite, not  *)
(* NaN), integer, minimum, maximum and reports exactly one issue, for the  *)
(* first check that fails; min and max are inclusive; positive() rejects 0 *)
(* and every negative number and accepts every number greater than 0.      *)
(***************************************************************************)
IsNumber(v) == v.t = "number" /\ v # NaN /\ v # Infinity

\* the first check of the order that the value fails, "none" when it
\* passes them all
FirstFailingCheck(options, v) ==
    IF ~IsNumber(v) THEN "type"
    ELSE IF options.isInt = Bool(TRUE) /\ "frac" \in DOMAIN v THEN "integer"
    ELSE IF options.minimum # Undefined /\ v # options.minimum
            /\ NumLt(v, options.minimum) THEN "minimum"
    ELSE IF options.maximum # Undefined /\ v # options.maximum
            /\ NumLt(options.maximum, v) THEN "maximum"
    ELSE "none"

\* the check an issue of a number validator reports
CheckOfIssue(issue) ==
    CASE issue.code = "invalid_type" /\ issue.expected = Str("number") -> "type"
      [] issue.code = "invalid_type" /\ issue.expected = Str("integer") -> "integer"
      [] issue.code = "too_small" -> "minimum"
      [] issue.code = "too_big" -> "maximum"
      [] OTHER -> "other"

OneIssueForFirstFailingCheck ==
    (Returned /\ Schema.kind = "number")
        => IF FirstFailingCheck(Schema.options, given.value) = "none"
           THEN last.result = Success(given.value)
           ELSE /\ ~last.result.success
                /\ Len(Issues) = 1
                /\ CheckOfIssue(Issues[1])
                        = FirstFailingCheck(Schema.options, given.value)

\* s.number().positive() is the last validator of the catalog
PositiveAcceptsAboveZero ==
    (Returned /\ last.schema = Len(LeafCatalog) /\ IsNumber(given.value))
        => (last.result.success
                <=> (given.value.num > 0
                        \/ (given.value.num = 0 /\ "frac" \in DOMAIN given.value)))

C19_NumberCheckOrder == OneIssueForFirstFailingCheck /\ PositiveAcceptsAboveZero

C19_Witness ==
    /\ Returned /\ Schema.kind = "number"
    /\ Schema.options.minimum = Num(5) /\ Schema.options.maximum = Num(3)
    /\ given.value = Num(4)
    /\ ~last.result.success /\ Issues[1].code = "too_small"

(***************************************************************************)
(* C20. The coerced boolean validator maps the string 'true' and the       *)
(* number 1 to true, the string 'false' and the number 0 to false, and     *)
(* passes any other input value through truthy/falsy coercion, so that     *)
(* value succeeds with its truthiness as the result.                       *)
(* Violated as stated: null and undefined are rejected.                    *)
(***************************************************************************)
CoercedCall == Returned /\ Schema.kind = "coerce.boolean"

RecognisedValues ==
    (CoercedCall /\ given.value \in {Str("true"), Num(1)}
        => last.result = Success(Bool(TRUE)))
    /\ (CoercedCall /\ given.value \in {Str("false"), Num(0)}
        => last.result = Success(Bool(FALSE)))

Recognised == {Str("true"), Num(1), Str("false"), Num(0)}

C20_EveryOtherValueByTruthiness ==
    /\ RecognisedValues
    /\ (CoercedCall /\ given.value \notin Recognised)
            => last.result = Success(Bool(Truthy(given.value)))

(***************************************************************************)
(* C20, amended.  null and undefined are rejected with one invalid-type    *)
(* issue (expected boolean); 'true' and 1 give true, 'false' and 0 give    *)
(* false, and every other value succeeds with its truthiness.              *)
(***************************************************************************)
C20_CoercedBoolean ==
    /\ RecognisedValues
    /\ (CoercedCall /\ given.value \in {Null, Undefined})
            => /\ ~last.result.success
               /\ Len(Issues) = 1
               /\ Issues[1].code = "invalid_type"
               /\ Issues[1].expected = Str("boolean")
               /\ Issues[1].received = ReceivedType(given.value)
    /\ (CoercedCall /\ given.value \notin Recognised \cup {Null, Undefined})
            => last.result = Success(Bool(Truthy(given.value)))

C20_Witness ==
    /\ CoercedCall /\ given.value = Str("false")
    /\ last.result = Success(Bool(FALSE))

(***************************************************************************)
(* C21. toJsonSchema of nullable(X) or nullish(X), when the mapping of X   *)
(* has a `type` keyword, is the mapping of X with 'null' appended to       *)
(* `type` (as an array of types) and every other keyword of X's mapping    *)
(* kept (properties and required of an object, items, minItems and         *)
(* maxItems of an array, and default included); when the mapping of X has  *)
(* no `type` keyword it is anyOf: [mapping of X, {type: 'null'}].          *)
(* Violated: addNullToType copies eight keywords only, so the mapping of a *)
(* nullable object has lost properties and required, and the mapping of a  *)
(* nullable array has lost items.                                          *)
(***************************************************************************)
\* the types of a `type` keyword, as a list
TypesOf(type) == IF IsArray(type) THEN type.arr ELSE <<type>>

\* the keywords of a mapping other than `type`
OtherKeywords(json) == SeqSet(ObjectKeys(json.obj)) \ {"type"}

C21_NullAddedToTypeKeepsKeywords ==
    (last.op = "toJsonSchema" /\ nodes[last.schema].kind \in {"nullable", "nullish"})
        => LET inner == toJsonSchema(nodes, nodes[last.schema].innerType) IN
           IF HasKey(inner.obj, "type")
           THEN /\ JsonGet(last.json, "type")
                    = Arr(Append(TypesOf(JsonGet(inner, "type")), Str("null")))
                /\ OtherKeywords(last.json) = OtherKeywords(inner)
                /\ \A key \in OtherKeywords(inner) :
                        JsonGet(last.json, key) = JsonGet(inner, key)
           ELSE last.json = Obj(<<<<"anyOf",
                        Arr(<<inner, Obj(<<<<"type", Str("null")>>>>)>>)>>>>)

(***************************************************************************)
(* C22. A string validator checks in the order type, minimum length,       *)
(* maximum length, pattern, then the custom predicates in the order they   *)
(* were registered, and stops at the first failing check: a failure always *)
(* carries exactly one issue, for the earliest failing check in that       *)
(* order, and no later check or predicate is evaluated.                    *)
(***************************************************************************)
\* the predicates of a string validator that reject the string, by position
FailingPredicates(o, v) ==
    {i \in DOMAIN o.customValidators :
        ~ApplyPredicate(o.customValidators[i].validate, v.str)}

\* the earliest check of the order that the value fails, "none" if it passes
FirstFailingStringCheck(o, v) ==
    IF TypeOf(v) # "string" THEN "type"
    ELSE IF o.minLength # Undefined /\ Len(v.str) < o.minLength.num THEN "min"
    ELSE IF o.maxLength # Undefined /\ Len(v.str) > o.maxLength.num THEN "max"
    ELSE IF o.pattern # Undefined /\ ~PatternTest(o.pattern.re, v.str) THEN "pattern"
    ELSE IF FailingPredicates(o, v) # {} THEN "custom"
    ELSE "none"

\* the predicates that are evaluated: none when an earlier check fails, else
\* the registered ones up to and including the first that rejects
EvaluatedPredicates(o, v) ==
    IF FirstFailingStringCheck(o, v) \in {"type", "min", "max", "pattern"} THEN <<>>
    ELSE LET n == IF FailingPredicates(o, v) = {} THEN Len(o.customValidators)
                  ELSE Least(FailingPredicates(o, v))
         IN  [i \in 1..n |-> [fn |-> o.customValidators[i].validate, args |-> <<v>>]]

StringCheckOfIssue(issue) ==
    CASE issue.code = "invalid_type" -> "type"
      [] issue.code = "too_small" -> "min"
      [] issue.code = "too_big" -> "max"
      [] issue.code = "invalid_string" -> "pattern"
      [] issue.code = "custom" -> "custom"
      [] OTHER -> "other"

StringCall == last.op = "safeParse" /\ nodes[last.schema].kind = "string"

C22_StringCheckOrder ==
    StringCall
        => LET o == nodes[last.schema].options
               check == FirstFailingStringCheck(o, given.value)
           IN  /\ last.log = EvaluatedPredicates(o, given.value)
               /\ IF check = "none" THEN last.result = Success(given.value)
                  ELSE /\ ~last.result.success
                       /\ Len(Issues) = 1
                       /\ StringCheckOfIssue(Issues[1]) = check

\* the string passes the first of two predicates and fails the second: both
\* were evaluated, in the order of registration, and the one issue is custom
C22_Witness ==
    /\ StringCall
    /\ TypeOf(given.value) = "string"
    /\ Len(nodes[last.schema].options.customValidators) = 2
    /\ FailingPredicates(nodes[last.schema].options, given.value) = {2}
    /\ Len(last.log) = 2
    /\ Issues[1].code = "custom"

(***************************************************************************)
(* Arrays, objects and the validators nested in them: the state machine.   *)
(* safeParse is called on the validators of NestingCatalog with a value    *)
(* of NestingInputs.                                                       *)
(***************************************************************************)
NestingCatalog ==
    << NewStringType,                                              \*  1 s.string()
       NewNumberType,                                              \*  2 s.number()
       [NewStringType EXCEPT !.options.customValidators =
            <<[validate |-> "hasLowercase", message |-> Undefined]>>],
                                                \*  3 s.string().refine(hasLowercase)
       NewObjectType(<<Field("a", 1), Field("b", 2)>>, "strip"),   \*  4
       NewArrayType(1),                                            \*  5 s.array([1])
       NewArrayType(4),                                            \*  6 s.array([4])
       [NewArrayType(3) EXCEPT !.minLength = Num(2)],              \*  7 s.array([3]).min(2)
       [NewArrayType(3) EXCEPT !.maxLength = Num(1)],              \*  8 s.array([3]).max(1)
       [NewArrayType(3) EXCEPT !.exactLength = Num(1)],            \*  9 s.array([3]).length(1)
       NewArrayType(5),                                            \* 10 s.array([5])
       NewObjectType(<<Field("a", 6), Field("b", 5)>>, "strip"),   \* 11
       NewObjectType(<<Field("a", 6), Field("b", 5)>>, "strict"),  \* 12 [11].strict()
       [NewArrayType(3) EXCEPT !.exactLength = Num(2)],            \* 13 s.array([3]).length(2)
       NewUnionType(<<5, 2>>),                                     \* 14 s.union([[5], [2]])
       NewOptionalType(7),                                         \* 15 [7].optional()
       NewNullableType(12),                                        \* 16 [12].nullable()
       NewNullishType(8),                                          \* 17 [8].nullish()
       NewDefaultType(2, Num(5)),                                  \* 18 [2].default(5)
       NewTransformType(1, "length"),                              \* 19 [1].transform(length)
       NewCoercedBooleanType,                                      \* 20 s.coerce.boolean()
       NewLiteralType(Str("x")),                                   \* 21 s.literal('x')
       NewEnumType(<<Str("x"), Str("hello")>>),                    \* 22 s.enum(['x', 'hello'])
       NewArrayType(18),                                           \* 23 s.array([18])
       NewObjectType(<<Field("b", 1), Field("1", 1)>>, "strip")
                                        \* 24 s.object({b: [1], 1: [1]})
    >>

NestingElements ==
    {Str("x"), Str("HI"), Num(10), Undefined, Obj(<<>>),
     Obj(<<<<"a", Num(10)>>, <<"b", Str("x")>>>>),
     Obj(<<<<"a", Str("x")>>, <<"b", Num(10)>>>>)}

NestingArrays == UNION {{Arr(a) : a \in [1..n -> NestingElements]} : n \in 0..MaxLen}

InnerArrays == {Arr(<<>>), Arr(<<Num(10)>>), Arr(<<Str("x"), Num(10)>>),
                Arr(<<Num(10), Num(10)>>)}

NestedArrays == UNION {{Arr(a) : a \in [1..n -> InnerArrays]} : n \in 1..2}

ObjectsOfArrays ==
    {Obj(<<<<"a", a>>, <<"b", b>>>>) :
        a \in {Arr(<<>>), Arr(<<Obj(<<>>)>>), Num(10),
               Arr(<<Obj(<<<<"a", Num(10)>>, <<"b", Str("x")>>>>)>>)},
        b \in {Str("x"), Num(10)} \cup InnerArrays}
    \cup {Obj(<<<<"a", Arr(<<Obj(<<>>)>>)>>, <<"b", b>>, <<"c", Num(10)>>>>) :
            b \in {Str("x"), Num(10)}}
    \cup {Obj(<<<<"b", Arr(<<Num(10), Num(10)>>)>>, <<"a", Arr(<<Obj(<<>>)>>)>>>>)}

NestingInputs ==
    {Undefined, Null, Bool(TRUE), Num(0), Num(5), Str(""), Str("x"), Str("hello")}
    \cup NestingArrays \cup NestedArrays \cup ObjectsOfArrays
    \cup {Obj(<<>>), Obj(<<<<"b", Num(10)>>, <<"1", Num(10)>>>>)}

InitNesting ==
    /\ nodes = NestingCatalog
    /\ counter = 0
    /\ currentErrorMap = "defaultErrorMap"
    /\ given \in [value : NestingInputs, options : {[errorMap |-> Undefined]}]
    /\ last = [op |-> "none"]

NextNesting == \E ref \in DOMAIN nodes : SafeParse(ref)

SpecNesting == InitNesting /\ [][NextNesting]_vars

(***************************************************************************)
(* C23. An array validator rejects every non-array input with one          *)
(* invalid_type issue; when a length constraint (exact, min or max) is     *)
(* violated it returns exactly one issue at the array's path and validates *)
(* no element; otherwise it validates every element with the path extended *)
(* by its index and returns one failure holding the issues of all failing  *)
(* elements, not only the first.                                           *)
(***************************************************************************)
ArrayCall == Returned /\ Schema.kind = "array"

\* what the element validator does, taken alone, with element i (0-based) and
\* the path extended by i
ElementWalk(node, i) ==
    parse(nodes, node.element, given.value.arr[i + 1],
          [RootCtx EXCEPT !.path = <<IdxSeg(i)>>], Before)

\* a length constraint of the validator is violated by an array of length n
LengthViolated(node, n) ==
    \/ node.exactLength # Undefined /\ n # node.exactLength.num
    \/ node.minLength # Undefined /\ n < node.minLength.num
    \/ node.maxLength # Undefined /\ n > node.maxLength.num

\* s[1] \o s[2] \o ... \o s[Len(s)]
RECURSIVE Concat(_)
Concat(s) == IF Len(s) = 0 THEN <<>> ELSE s[1] \o Concat(Tail(s))

\* the issues of the failing elements and the predicate calls of all elements,
\* in increasing index
ElementIssues(node) ==
    Concat([k \in 1..Len(given.value.arr) |->
                IF ElementWalk(node, k - 1).result.success THEN <<>>
                ELSE ElementWalk(node, k - 1).result.error.issues])

ElementCalls(node) ==
    Concat([k \in 1..Len(given.value.arr) |-> ElementWalk(node, k - 1).g.log])

OneIssueAtRoot(codes) ==
    /\ ~last.result.success
    /\ Len(Issues) = 1
    /\ Issues[1].code \in codes
    /\ Issues[1].path = <<>>

C23_ArrayWalk ==
    ArrayCall
        => IF ~IsArray(given.value)
           THEN OneIssueAtRoot({"invalid_type"}) /\ last.log = <<>>
           ELSE IF LengthViolated(Schema, Len(given.value.arr))
           THEN OneIssueAtRoot({"too_small", "too_big"}) /\ last.log = <<>>
           ELSE /\ last.log = ElementCalls(Schema)
                /\ IF ElementIssues(Schema) = <<>>
                   THEN last.result.success
                   ELSE /\ ~last.result.success
                        /\ Issues = ElementIssues(Schema)

\* both elements of a two-element array fail and both are reported, each at
\* its index
C23_Witness ==
    /\ ArrayCall /\ IsArray(given.value)
    /\ Len(given.value.arr) = 2
    /\ ~last.result.success
    /\ Len(Issues) >= 2
    /\ Issues[1].path[1] = IdxSeg(0)
    /\ Issues[Len(Issues)].path[1] = IdxSeg(1)

(***************************************************************************)
(* C30. For an array validator with an exact length n, an input array      *)
(* shorter than n fails with one issue of kind too_small and an input      *)
(* array longer than n fails with one issue of kind too_big.               *)
(* Violated: the exact-length check reports too_small with minimum n for   *)
(* every array whose length is not n, the longer ones included.            *)
(***************************************************************************)
C30_ExactLengthIssueKind ==
    (ArrayCall /\ IsArray(given.value) /\ Schema.exactLength # Undefined)
        => /\ Len(given.value.arr) < Schema.exactLength.num
                => OneIssueAtRoot({"too_small"})
           /\ Len(given.value.arr) > Schema.exactLength.num
                => OneIssueAtRoot({"too_big"})

(***************************************************************************)
(* C24. For string and number validators, applying the same set of         *)
(* configuration calls in a different order yields validators that accept  *)
(* exactly the same inputs (for example number().min(5).positive() and     *)
(* number().positive().min(5), or string().pattern(p).email() and          *)
(* string().email().pattern(p)).                                           *)
(* Violated: min, positive and nonnegative write the one `minimum`, max    *)
(* and negative the one `maximum`, pattern and the format presets the one  *)
(* `pattern`, length the string's two bounds; of two calls writing the     *)
(* same setting the later one wins.                                        *)
(***************************************************************************)
NumberCalls == {"int", "min(5)", "max(3)", "positive", "negative", "nonnegative"}

StringCalls == {"min(1)", "max(3)", "length(1)", "nonempty", "pattern(version)",
                "email", "uuid"}

\* r.h[r.ref].call(), r being what the previous call returned
ConfigurationCall(r, call) ==
    CASE call = "int" -> NumberType_int(r.h, r.ref, NoMessage)
      [] call = "min(5)" -> NumberType_min(r.h, r.ref, Num(5), NoMessage)
      [] call = "max(3)" ->
            IF r.h[r.ref].kind = "string"
            THEN StringType_max(r.h, r.ref, 3, NoMessage)
            ELSE NumberType_max(r.h, r.ref, Num(3), NoMessage)
      [] call = "positive" -> NumberType_positive(r.h, r.ref, NoMessage)
      [] call = "negative" -> NumberType_negative(r.h, r.ref, NoMessage)
      [] call = "nonnegative" -> NumberType_nonnegative(r.h, r.ref, NoMessage)
      [] call = "min(1)" -> StringType_min(r.h, r.ref, 1, NoMessage)
      [] call = "length(1)" -> StringType_length(r.h, r.ref, 1, NoMessage)
      [] call = "nonempty" -> StringType_nonempty(r.h, r.ref, NoMessage)
      [] call = "pattern(version)" ->
            StringType_pattern(r.h, r.ref, RegExp("version"), NoMessage)
      [] call = "email" -> StringType_format(r.h, r.ref, "email", NoMessage)
      [] call = "uuid" -> StringType_format(r.h, r.ref, "uuid", NoMessage)

\* s.number() and s.string(), each alone on a heap
FreshNumber == [h |-> <<NewNumberType>>, ref |-> 1]
FreshString == [h |-> <<NewStringType>>, ref |-> 1]

\* the validator a chain of calls returned accepts the value
Accepts(r, v) ==
    safeParse(r.h, r.ref, v, [errorMap |-> Undefined], Globals).result.success

\* the two orders of the calls c1 and c2 on the fresh validator agree on v
OrdersAgree(fresh, c1, c2, v) ==
    Accepts(ConfigurationCall(ConfigurationCall(fresh, c1), c2), v)
        = Accepts(ConfigurationCall(ConfigurationCall(fresh, c2), c1), v)

C24_ConfigurationOrderIrrelevant ==
    /\ \A c1, c2 \in NumberCalls : OrdersAgree(FreshNumber, c1, c2, given.value)
    /\ \A c1, c2 \in StringCalls : OrdersAgree(FreshString, c1, c2, given.value)

(***************************************************************************)
(* C25. Every failure result produced by any validator (primitive,         *)
(* modifier, object, array, union, coercion), after any nesting and        *)
(* merging, carries exactly one aggregated error whose issue list is       *)
(* non-empty.                                                              *)
(***************************************************************************)
\* an issue as _createError builds it
IsIssue(issue) ==
    /\ DOMAIN issue = {"code", "path", "message", "expected", "received",
                       "minimum", "maximum", "inclusive", "options"}
    /\ issue.code \in {"invalid_type", "too_small", "too_big", "invalid_string",
                       "invalid_enum", "invalid_literal", "invalid_union",
                       "unrecognized_keys", "custom"}

C25_FailureHoldsOneNonEmptyError ==
    (Returned /\ ~last.result.success)
        => /\ DOMAIN last.result = {"success", "error"}
           /\ DOMAIN last.result.error = {"issues"}
           /\ Len(Issues) >= 1
           /\ \A i \in 1..Len(Issues) : IsIssue(Issues[i])

\* the failures of an array nested in an object were merged twice: the issues
\* of two elements' fields are in the one error of the object
C25_Witness ==
    /\ Returned /\ ~last.result.success
    /\ Schema.kind = "object"
    /\ Len(Issues) >= 2
    /\ \A i \in 1..Len(Issues) : Len(Issues[i].path) = 3

(***************************************************************************)
(* C27. The issues of an aggregated error are ordered by the walk: for an  *)
(* object, the issues of failing fields appear in shape insertion order;   *)
(* for an array, in increasing element index; and all issues of one        *)
(* child's failure are contiguous and keep their own relative order.       *)
(* Violated: the shape is walked as Object.entries enumerates it, so a     *)
(* field with an integer-like name is reported before the fields written   *)
(* before it.                                                              *)
(***************************************************************************)
\* the error holds issues of children: it was merged from their failures
Aggregated ==
    /\ Returned /\ ~last.result.success
    /\ \E i \in 1..Len(Issues) : Issues[i].path # <<>>

\* the issue lists of the failing fields, one after the other in the order
\* the fields were inserted in the shape
FieldIssuesInShapeOrder(node) ==
    Concat([i \in 1..Len(node.shape) |->
                IF FieldOutcome(node, i).success THEN <<>>
                ELSE FieldOutcome(node, i).error.issues])

C27_IssuesInWalkOrder ==
    /\ (Aggregated /\ Schema.kind = "object")
            => Issues = FieldIssuesInShapeOrder(Schema)
    /\ (Aggregated /\ Schema.kind = "array")
            => Issues = ElementIssues(Schema)

(***************************************************************************)
(* Validators holding a RegExp with the g flag: the state machine.  The    *)
(* caller passed the one RegExp object /^\d+\.\d+\.\d+$/g to pattern();    *)
(* every validator derived from that call holds the same object, and       *)
(* given.lastIndex is its lastIndex.                                       *)
(***************************************************************************)
RegExpCatalog ==
    << [NewStringType EXCEPT !.options.pattern = GlobalRegExp("version")],
                                    \* 1 s.string().pattern(/^\d+\.\d+\.\d+$/g)
       [NewStringType EXCEPT !.options.pattern = GlobalRegExp("version"),
                             !.options.minLength = Num(1)],        \* 2 [1].min(1)
       NewObjectType(<<Field("v", 1)>>, "strip"),                  \* 3 s.object({v: [1]})
       NewArrayType(1),                                            \* 4 s.array([1])
       [NewStringType EXCEPT !.options.pattern = RegExp("version")],
                                    \* 5 s.string().pattern(/^\d+\.\d+\.\d+$/)
       NewOptionalType(2)                                          \* 6 [2].optional()
    >>

RegExpInputs ==
    {Undefined, Num(10), Str(""), Str("x"), Str("hello"), Str("1.0.0"),
     Obj(<<>>), Obj(<<<<"v", Str("1.0.0")>>>>), Obj(<<<<"v", Str("x")>>>>),
     Arr(<<>>), Arr(<<Str("1.0.0")>>), Arr(<<Str("x")>>),
     Arr(<<Str("1.0.0"), Str("1.0.0")>>), Arr(<<Str("1.0.0"), Str("x")>>),
     Arr(<<Str("x"), Str("1.0.0")>>), Arr(<<Str("x"), Str("x")>>), Null}

\* a RegExp object is created with lastIndex 0
NewLastIndex == [version |-> 0]

InitRegExp ==
    /\ nodes = RegExpCatalog
    /\ counter = 0
    /\ currentErrorMap = "defaultErrorMap"
    /\ given \in [value : RegExpInputs, options : {[errorMap |-> Undefined]},
                  lastIndex : {NewLastIndex}]
    /\ last = [op |-> "none"]

\* schema.safeParse(given.value): what the walk wrote to the RegExp stays
SafeParseStateful(ref) ==
    LET r == safeParse(nodes, ref, given.value, given.options,
                       [counter |-> counter, log |-> <<>>,
                        errorMap |-> currentErrorMap,
                        lastIndex |-> given.lastIndex])
    IN  /\ given' = [given EXCEPT !.lastIndex = r.g.lastIndex]
        /\ last' = SafeParseCall(ref, r)
        /\ UNCHANGED <<nodes, counter, currentErrorMap>>

NextRegExp == \E ref \in DOMAIN nodes : SafeParseStateful(ref)

SpecRegExp == InitRegExp /\ [][NextRegExp]_vars

(***************************************************************************)
(* C26. A parse or safeParse call writes no state of the validator tree    *)
(* and does not change the process-wide error map, so for validators       *)
(* without side-effecting user callbacks, any interleaving of parse calls  *)
(* against the same validator tree gives each call the same result it      *)
(* gives when run alone.                                                   *)
(* Violated: the pattern check calls test() on the validator's RegExp,     *)
(* which writes lastIndex when the RegExp has the g flag; the next call on *)
(* any validator holding that RegExp starts its search there.              *)
(***************************************************************************)
\* the call made alone: on the validators as they were built, nothing having
\* been called before it
AloneResult(ref) ==
    safeParse(RegExpCatalog, ref, given.value, given.options,
              [counter |-> 0, log |-> <<>>, errorMap |-> currentErrorMap,
               lastIndex |-> NewLastIndex]).result

ParseWritesNothing ==
    ParseReturned
        => /\ nodes' = nodes
           /\ given'.lastIndex = given.lastIndex
           /\ currentErrorMap' = currentErrorMap

SameResultAsAlone ==
    ParseReturned => last'.result = AloneResult(last'.schema)

C26_ParseCallsAreIndependent ==
    [][ParseWritesNothing /\ SameResultAsAlone]_vars

(***************************************************************************)
(* Fixed defaults that are arrays or objects: the state machine of parse   *)
(* calls, toJsonSchema calls and callers writing to what a parse returned. *)
(* An array or object is held by reference: the validator built by         *)
(*   s.array(s.string()).default(['x'])                                    *)
(* holds a reference to the array, given.objects maps each reference to    *)
(* what the object holds now, and a result whose data is that reference is *)
(* the same array.                                                         *)
(***************************************************************************)
\* a reference to an array or object; typeof gives 'object'
ObjRef(id) == [t |-> "object", ref |-> id]

IsRef(v) == "ref" \in DOMAIN v

\* what a value holds: a reference is followed, fields and elements too
Deref(objects, v) ==
    LET Follow(x) == IF IsRef(x) THEN objects[x.ref] ELSE x
        w == Follow(v)
    IN  IF IsRef(w) THEN w
        ELSE IF w.t = "array" THEN Arr([i \in 1..Len(w.arr) |-> Follow(w.arr[i])])
        ELSE IF w.t = "object"
        THEN Obj([i \in 1..Len(w.obj) |-> <<w.obj[i][1], Follow(w.obj[i][2])>>])
        ELSE w

\* the references a returned value gives its holder: itself or its fields
ReturnedRefs(data) ==
    IF IsRef(data) THEN {data.ref}
    ELSE IF data.t = "object" /\ data # Null
    THEN {data.obj[i][2].ref : i \in {j \in 1..Len(data.obj) : IsRef(data.obj[j][2])}}
    ELSE {}

\* the arrays and objects the defaults were configured with
NewObjects == << Arr(<<Str("x")>>), Obj(<<<<"a", Str("x")>>>>) >>

DefaultCatalog ==
    << NewStringType,                                  \* 1 s.string()
       NewArrayType(1),                                \* 2 s.array([1])
       NewDefaultType(2, ObjRef(1)),                   \* 3 [2].default(['x'])
       NewObjectType(<<Field("a", 1)>>, "passthrough"),
                                      \* 4 s.object({a: [1]}).passthrough()
       NewDefaultType(4, ObjRef(2)),                   \* 5 [4].default({a: 'x'})
       NewNumberType,                                  \* 6 s.number()
       NewDefaultType(6, Num(5)),                      \* 7 [6].default(5)
       NewObjectType(<<Field("tags", 3), Field("n", 7)>>, "strip")
                                      \* 8 s.object({tags: [3], n: [7]})
    >>

DefaultInputs ==
    {Undefined, Null, Obj(<<>>), Obj(<<<<"a", Str("y")>>>>),
     Obj(<<<<"n", Num(1)>>>>), Arr(<<>>), Arr(<<Str("y")>>)}

InitDefault ==
    /\ nodes = DefaultCatalog
    /\ counter = 0
    /\ currentErrorMap = "defaultErrorMap"
    /\ given \in [value : DefaultInputs, options : {[errorMap |-> Undefined]},
                  objects : {NewObjects}]
    /\ last = [op |-> "none"]

\* the caller holds the result of the last call and writes to an array or
\* object it reached through it
CallerWrites(id, written) ==
    /\ last.op = "safeParse" /\ last.result.success
    /\ id \in ReturnedRefs(last.result.data)
    /\ given' = [given EXCEPT !.objects[id] = written]
    /\ last' = [op |-> "write", object |-> id]
    /\ UNCHANGED <<nodes, counter, currentErrorMap>>

\* result.data.push(element)
CallerPush(id, element) ==
    /\ IsArray(given.objects[id])
    /\ Len(given.objects[id].arr) < MaxLen
    /\ CallerWrites(id, Arr(Append(given.objects[id].arr, element)))

\* result.data[key] = v
CallerAssign(id, key, v) ==
    /\ ~IsArray(given.objects[id])
    /\ CallerWrites(id, Obj(SetProp(given.objects[id].obj, key, v)))

\* toJsonSchema(schema)
EmitJsonSchema(ref) ==
    /\ last' = [op |-> "toJsonSchema", schema |-> ref,
                json |-> toJsonSchema(nodes, ref)]
    /\ UNCHANGED <<nodes, counter, currentErrorMap, given>>

NextDefault ==
    \/ \E ref \in DOMAIN nodes : SafeParse(ref)
    \/ \E ref \in DOMAIN nodes : EmitJsonSchema(ref)
    \/ \E id \in DOMAIN given.objects, element \in {Str("y"), Num(1)} :
            CallerPush(id, element)
    \/ \E id \in DOMAIN given.objects, key \in {"a", "z"}, v \in {Str("y"), Num(1)} :
            CallerAssign(id, key, v)

SpecDefault == InitDefault /\ [][NextDefault]_vars

(***************************************************************************)
(* C29. For a validator with a fixed default, a parse of an absent input   *)
(* returns a value equal to the default as it was configured, and          *)
(* toJsonSchema emits that value as `default`, whatever callers wrote to   *)
(* the values earlier parses returned.                                     *)
(* Violated: the default is returned and emitted by reference, so what a   *)
(* caller writes to a returned array or object is what the next parse      *)
(* returns and what toJsonSchema emits.                                    *)
(***************************************************************************)
FixedDefault(ref) ==
    /\ nodes[ref].kind = "default"
    /\ TypeOf(nodes[ref].defaultValue) # "function"

\* what the default held when default() was called
ConfiguredDefault(ref) == Deref(NewObjects, DefaultCatalog[ref].defaultValue)

C29_DefaultUnaffectedByCallers ==
    /\ (last.op = "safeParse" /\ FixedDefault(last.schema) /\ given.value = Undefined)
            => /\ last.result.success
               /\ Deref(given.objects, last.result.data) = ConfiguredDefault(last.schema)
    /\ (last.op = "toJsonSchema" /\ FixedDefault(last.schema))
            => Deref(given.objects, JsonGet(last.json, "default"))
                    = ConfiguredDefault(last.schema)

====
